---- MODULE Spec2Model ----
(***************************************************************************)
(* xlmd: conversion of tabular data between the OOXML spreadsheet package  *)
(* (.xlsx) and Markdown tables.                                            *)
(*                                                                         *)
(* Strings are sequences of one-character strings, so that the code's      *)
(* string operations (trimming, splitting, prefix tests, column letters,   *)
(* decimal formatting and parsing) are computed rather than assumed.       *)
(* A zip archive is the sequence of its entries in archive order; an XML   *)
(* part is the value that encoding/xml marshals, together with a flag      *)
(* telling whether its bytes are well-formed XML.                          *)
(***************************************************************************)
EXTENDS Integers, Sequences, FiniteSets, TLC

VARIABLES
    pc,       \* position of the conversion pipeline
    src,      \* what the run started from: "model", "text" or "col"
    given,    \* the sheets handed to the first writer (never changed afterwards)
    sheets,   \* the caller's []SheetData (ToMarkdown pads its rows in place)
    pkg,      \* the .xlsx archive on disk: sequence of zip entries
    fault,    \* the damage done to the archive, or the I/O operation that failed
    out,      \* what ReadExcel returned: [err, sheets]
    jout,     \* what the Java ExcelReader.read returned: [err, sheets]
    md,       \* the Markdown text
    mdOut,    \* what ReadMarkdown returned: [panic, err, sheets]
    col,      \* column index given to toColName
    ref,      \* the cell reference built from it
    idx,      \* the index colRefToIndex decoded
    werr,     \* whether WriteExcel returned an error
    opts,     \* the Options ParseFlags built from the command line
    disk,     \* the paths that name an existing file
    calls     \* the reader and writer calls Run has made, in order

vars == <<pc, src, given, sheets, pkg, fault, out, jout, md, mdOut, col, ref, idx, werr,
          opts, disk, calls>>

\* the variables only the driver uses
driver == <<opts, disk, calls>>

\* var opts Options
NoOptions == [InputFile |-> <<>>, OutputFile |-> <<>>, Direction |-> ""]

----------------------------------------------------------------------------
(* Characters and strings *)

Letters == <<"A","B","C","D","E","F","G","H","I","J","K","L","M",
             "N","O","P","Q","R","S","T","U","V","W","X","Y","Z">>

DigitChars == <<"0","1","2","3","4","5","6","7","8","9">>

IsUpper(c) == \E i \in 1..Len(Letters) : Letters[i] = c

IsDigit(c) == \E i \in 1..Len(DigitChars) : DigitChars[i] = c

\* int(char) - 'A' for an upper-case letter
LetterOrd(c) == (CHOOSE i \in 1..Len(Letters) : Letters[i] = c) - 1

DigitVal(c) == (CHOOSE i \in 1..Len(DigitChars) : DigitChars[i] = c) - 1

\* s[from:to] of Go, 0-based, to exclusive
Slice(s, from, to) == SubSeq(s, from + 1, to)

HasPrefix(s, p) == Len(s) >= Len(p) /\ SubSeq(s, 1, Len(p)) = p

HasSuffix(s, p) == Len(s) >= Len(p) /\ SubSeq(s, Len(s) - Len(p) + 1, Len(s)) = p

TrimPrefix(s, p) == IF HasPrefix(s, p) THEN SubSeq(s, Len(p) + 1, Len(s)) ELSE s

TrimSuffix(s, p) == IF HasSuffix(s, p) THEN SubSeq(s, 1, Len(s) - Len(p)) ELSE s

RECURSIVE Concat(_)
Concat(ss) == IF ss = <<>> THEN <<>> ELSE Head(ss) \o Concat(Tail(ss))

RECURSIVE Pow(_, _)
Pow(b, e) == IF e = 0 THEN 1 ELSE b * Pow(b, e - 1)

\* strconv.Itoa / fmt's %d
RECURSIVE ItoaLoop(_)
ItoaLoop(n) == IF n < 10 THEN <<DigitChars[n + 1]>>
               ELSE ItoaLoop(n \div 10) \o <<DigitChars[(n % 10) + 1]>>

Itoa(n) == IF n < 0 THEN <<"-">> \o ItoaLoop(0 - n) ELSE ItoaLoop(n)

RECURSIVE DigitsVal(_, _)
DigitsVal(s, acc) == IF s = <<>> THEN acc
                     ELSE DigitsVal(Tail(s), 10 * acc + DigitVal(Head(s)))

\* strconv.Atoi: an optional sign followed by at least one decimal digit
Atoi(s) ==
    LET signed == Len(s) > 0 /\ Head(s) \in {"-", "+"}
        body   == IF signed THEN Tail(s) ELSE s
        ok     == Len(body) > 0 /\ \A i \in 1..Len(body) : IsDigit(body[i])
        mag    == IF ok THEN DigitsVal(body, 0) ELSE 0
    IN [ok |-> ok, val |-> IF signed /\ Head(s) = "-" THEN 0 - mag ELSE mag]

----------------------------------------------------------------------------
(* Column-address codec *)

\* faulty variant: plain base 26, the "- 1" of the bijective numeration forgotten
toColNameStep_plainBase26(c) == IF c < 26 THEN 0 - 1 ELSE c \div 26

toColNameStep(c) == (c \div 26) - 1

RECURSIVE toColNameLoop(_, _)
toColNameLoop(c, name) ==
    IF c >= 0 THEN toColNameLoop(toColNameStep(c), <<Letters[(c % 26) + 1]>> \o name)
    ELSE name

toColName(c) == IF c < 0 THEN <<>> ELSE toColNameLoop(c, <<>>)

\* the leading run of 'A'..'Z' of a cell reference
RECURSIVE colStrOf(_)
colStrOf(r) == IF r # <<>> /\ IsUpper(Head(r)) THEN <<Head(r)>> \o colStrOf(Tail(r))
               ELSE <<>>

RECURSIVE colIndexSum(_)
colIndexSum(colStr) ==
    IF colStr = <<>> THEN 0
    ELSE (LetterOrd(Head(colStr)) + 1) * Pow(26, Len(colStr) - 1)
         + colIndexSum(Tail(colStr))

colRefToIndex(r) == colIndexSum(colStrOf(r)) - 1

----------------------------------------------------------------------------
(* Names of the parts of the package *)

SharedStringsPath == <<"x","l","/","s","h","a","r","e","d","S","t","r","i","n","g","s",".","x","m","l">>

WorksheetPrefix == <<"x","l","/","w","o","r","k","s","h","e","e","t","s","/","s","h","e","e","t">>

WorksheetDir == <<"x","l","/","w","o","r","k","s","h","e","e","t","s","/">>

XmlSuffix == <<".","x","m","l">>

ContentTypesPath == <<"[","C","o","n","t","e","n","t","_","T","y","p","e","s","]",".","x","m","l">>

RootRelsPath == <<"_","r","e","l","s","/",".","r","e","l","s">>

StylesPath == <<"x","l","/","s","t","y","l","e","s",".","x","m","l">>

WorkbookRelsPath == <<"x","l","/","_","r","e","l","s","/","w","o","r","k","b","o","o","k",".","x","m","l",".","r","e","l","s">>

WorkbookPath == <<"x","l","/","w","o","r","k","b","o","o","k",".","x","m","l">>

RelWorksheetPrefix == <<"w","o","r","k","s","h","e","e","t","s","/","s","h","e","e","t">>

RelWorksheetDir == <<"w","o","r","k","s","h","e","e","t","s","/">>

XlDir == <<"x","l","/">>

SheetWord == <<"S","h","e","e","t">>

RIdWord == <<"r","I","d">>

StylesTarget == <<"s","t","y","l","e","s",".","x","m","l">>

SharedStringsTarget == <<"s","h","a","r","e","d","S","t","r","i","n","g","s",".","x","m","l">>

WorkbookTarget == <<"x","l","/","w","o","r","k","b","o","o","k",".","x","m","l">>

TypeShared == <<"s">>

\* fmt.Sprintf("xl/worksheets/sheet%d.xml", n)
WorksheetPath(n) == WorksheetPrefix \o Itoa(n) \o XmlSuffix

\* fmt.Sprintf("rId%d", n)
RId(n) == RIdWord \o Itoa(n)

----------------------------------------------------------------------------
(* Package writer: WriteExcel *)

\* every cell value of every row of every sheet, in scan order
RECURSIVE cellsInScanOrder(_)
cellsInScanOrder(shs) ==
    IF shs = <<>> THEN <<>>
    ELSE Concat(Head(shs).Rows) \o cellsInScanOrder(Tail(shs))

InTable(table, v) == \E i \in 1..Len(table) : table[i] = v

\* faulty variant: a value already in the table is appended again
RECURSIVE collectSharedStrings_noDedup(_, _)
collectSharedStrings_noDedup(cells, table) ==
    IF cells = <<>> THEN table
    ELSE collectSharedStrings_noDedup(Tail(cells),
             IF Head(cells) # <<>> THEN Append(table, Head(cells)) ELSE table)

\* the loop that fills sharedStrings and stringIndexMap
RECURSIVE collectSharedStrings(_, _)
collectSharedStrings(cells, table) ==
    IF cells = <<>> THEN table
    ELSE collectSharedStrings(Tail(cells),
             IF Head(cells) # <<>> /\ ~InTable(table, Head(cells))
             THEN Append(table, Head(cells)) ELSE table)

buildSharedStrings(shs) == collectSharedStrings(cellsInScanOrder(shs), <<>>)

\* stringIndexMap[v]; a Go map yields 0 for a key it does not hold
stringIndexMap(table, v) ==
    IF InTable(table, v) THEN (CHOOSE i \in 1..Len(table) : table[i] = v) - 1 ELSE 0

\* faulty variant: the scan stops at the first non-empty value
writerMaxColIndex_firstValue(row) ==
    LET S == {j \in 0..(Len(row) - 1) : row[j + 1] # <<>>}
    IN IF S = {} THEN 0 - 1 ELSE CHOOSE j \in S : \A k \in S : j <= k

\* index of the last non-empty value of the row, -1 when there is none
writerMaxColIndex(row) ==
    LET S == {j \in 0..(Len(row) - 1) : row[j + 1] # <<>>}
    IN IF S = {} THEN 0 - 1 ELSE CHOOSE j \in S : \A k \in S : k <= j

\* faulty variant: the reference names the column after the value's
cellRef_nextColumn(cIdx, rowNum) == toColName(cIdx + 1) \o Itoa(rowNum)

cellRef(cIdx, rowNum) == toColName(cIdx) \o Itoa(rowNum)

\* faulty variant: the value is written inline, without a type
writtenCell_inlineValue(row, cIdx, rowNum, table) ==
    [Ref |-> cellRef(cIdx, rowNum), Type |-> <<>>, Val |-> row[cIdx + 1]]

writtenCell(row, cIdx, rowNum, table) ==
    [Ref |-> cellRef(cIdx, rowNum), Type |-> TypeShared,
     Val |-> Itoa(stringIndexMap(table, row[cIdx + 1]))]

RECURSIVE xmlCellsFrom(_, _, _, _)
xmlCellsFrom(row, cIdx, rowNum, table) ==
    IF cIdx > writerMaxColIndex(row) THEN <<>>
    ELSE (IF row[cIdx + 1] = <<>> THEN <<>>
          ELSE <<writtenCell(row, cIdx, rowNum, table)>>)
         \o xmlCellsFrom(row, cIdx + 1, rowNum, table)

\* faulty variant: the row number is the row's index
rowNumOf_zeroBased(rIdx) == rIdx

rowNumOf(rIdx) == rIdx + 1

RECURSIVE xmlRowsFrom(_, _, _)
xmlRowsFrom(rows, rIdx, table) ==
    IF rIdx >= Len(rows) THEN <<>>
    ELSE LET xmlCells == xmlCellsFrom(rows[rIdx + 1], 0, rowNumOf(rIdx), table)
         IN (IF Len(xmlCells) > 0
             THEN <<[R |-> rowNumOf(rIdx), Cells |-> xmlCells]>> ELSE <<>>)
            \o xmlRowsFrom(rows, rIdx + 1, table)

worksheetPart(shs, i, table) ==
    [name |-> WorksheetPath(i + 1), ok |-> TRUE,
     body |-> [Rows |-> xmlRowsFrom(shs[i + 1].Rows, 0, table)]]

contentTypesPart(shs) ==
    [name |-> ContentTypesPath, ok |-> TRUE,
     body |-> <<WorkbookPath, StylesPath, SharedStringsPath>>
              \o [i \in 1..Len(shs) |-> WorksheetPath(i)]]

rootRelsPart ==
    [name |-> RootRelsPath, ok |-> TRUE,
     body |-> <<[Id |-> RId(1), Target |-> WorkbookTarget]>>]

stylesPart == [name |-> StylesPath, ok |-> TRUE, body |-> <<>>]

sharedStringsPart(table) ==
    [name |-> SharedStringsPath, ok |-> TRUE,
     body |-> [Count |-> Len(table), UniqueCount |-> Len(table),
               SI |-> [i \in 1..Len(table) |-> [T |-> table[i]]]]]

\* faulty variant: styles and shared strings are numbered from the last sheet's ID
workbookRelsPart_idsFromLastSheet(shs) ==
    [name |-> WorkbookRelsPath, ok |-> TRUE,
     body |-> [i \in 1..Len(shs) |->
                  [Id |-> RId(i), Target |-> RelWorksheetPrefix \o Itoa(i) \o XmlSuffix]]
              \o <<[Id |-> RId(Len(shs)), Target |-> StylesTarget],
                   [Id |-> RId(Len(shs) + 1), Target |-> SharedStringsTarget]>>]

workbookRelsPart(shs) ==
    [name |-> WorkbookRelsPath, ok |-> TRUE,
     body |-> [i \in 1..Len(shs) |->
                  [Id |-> RId(i), Target |-> RelWorksheetPrefix \o Itoa(i) \o XmlSuffix]]
              \o <<[Id |-> RId(Len(shs) + 1), Target |-> StylesTarget],
                   [Id |-> RId(Len(shs) + 2), Target |-> SharedStringsTarget]>>]

workbookSheetName(shs, i) ==
    IF shs[i + 1].Name = <<>> THEN SheetWord \o Itoa(i + 1) ELSE shs[i + 1].Name

workbookPart(shs) ==
    [name |-> WorkbookPath, ok |-> TRUE,
     body |-> [i \in 1..Len(shs) |->
                  [Name |-> workbookSheetName(shs, i - 1), SheetID |-> i, RID |-> RId(i)]]]

\* the archive WriteExcel leaves when no archive operation fails
WriteExcelArchive(shs) ==
    LET table == buildSharedStrings(shs)
    IN <<contentTypesPart(shs), rootRelsPart, stylesPart, sharedStringsPart(table),
         workbookRelsPart(shs), workbookPart(shs)>>
       \o [i \in 1..Len(shs) |-> worksheetPart(shs, i - 1, table)]

----------------------------------------------------------------------------
(* Java package writer: ExcelWriter.write *)

\* indexToColRef: while (col >= 0) { insert 'A' + col % 26; col = col / 26 - 1 }
RECURSIVE indexToColRefLoop(_, _)
indexToColRefLoop(c, sb) ==
    IF c >= 0 THEN indexToColRefLoop((c \div 26) - 1, <<Letters[(c % 26) + 1]>> \o sb)
    ELSE sb

indexToColRef(c) == indexToColRefLoop(c, <<>>)

\* the cells of one row: every non-empty value, up to the end of the array
RECURSIVE javaXmlCellsFrom(_, _, _, _)
javaXmlCellsFrom(row, cIdx, rowNum, table) ==
    IF cIdx >= Len(row) THEN <<>>
    ELSE (IF row[cIdx + 1] = <<>> \/ ~InTable(table, row[cIdx + 1]) THEN <<>>
          ELSE <<[Ref |-> indexToColRef(cIdx) \o Itoa(rowNum), Type |-> TypeShared,
                  Val |-> Itoa(stringIndexMap(table, row[cIdx + 1]))]>>)
         \o javaXmlCellsFrom(row, cIdx + 1, rowNum, table)

\* the row elements: one for every row whose array is not of length 0
RECURSIVE javaXmlRowsFrom(_, _, _)
javaXmlRowsFrom(rows, rIdx, table) ==
    IF rIdx >= Len(rows) THEN <<>>
    ELSE (IF Len(rows[rIdx + 1]) = 0 THEN <<>>
          ELSE <<[R |-> rIdx + 1,
                  Cells |-> javaXmlCellsFrom(rows[rIdx + 1], 0, rIdx + 1, table)]>>)
         \o javaXmlRowsFrom(rows, rIdx + 1, table)

writeWorksheetXML(sheet, sheetId, table) ==
    [name |-> WorksheetPath(sheetId), ok |-> TRUE,
     body |-> [Rows |-> javaXmlRowsFrom(sheet.Rows, 0, table)]]

writeWorkbookXML(shs) ==
    [name |-> WorkbookPath, ok |-> TRUE,
     body |-> [i \in 1..Len(shs) |-> [Name |-> shs[i].Name, SheetID |-> i, RID |-> RId(i)]]]

\* the archive ExcelWriter.write leaves; buildSharedStringTable is the loop of
\* WriteExcel over non-empty values
JavaWriteArchive(shs) ==
    LET table == buildSharedStrings(shs)
    IN <<contentTypesPart(shs), rootRelsPart, writeWorkbookXML(shs), workbookRelsPart(shs),
         stylesPart, sharedStringsPart(table)>>
       \o [i \in 1..Len(shs) |-> writeWorksheetXML(shs[i], i, table)]

----------------------------------------------------------------------------
(* Package reader: ReadExcel *)

Lower == <<"a","b","c","d","e","f","g","h","i","j","k","l","m",
           "n","o","p","q","r","s","t","u","v","w","x","y","z">>

IsLower(c) == \E i \in 1..Len(Lower) : Lower[i] = c

ToUpper(c) == IF IsLower(c) THEN Letters[CHOOSE i \in 1..Len(Lower) : Lower[i] = c] ELSE c

\* strings.Title: the first letter of every word is upper-cased
IsWordChar(c) == IsLower(c) \/ IsUpper(c) \/ IsDigit(c) \/ c = "_"

Title(s) == [i \in 1..Len(s) |->
                IF i = 1 \/ ~IsWordChar(s[i - 1]) THEN ToUpper(s[i]) ELSE s[i]]

guessSheetName(path) == Title(TrimSuffix(TrimPrefix(path, WorksheetDir), XmlSuffix))

isWorksheetName(name) == HasPrefix(name, WorksheetPrefix) /\ HasSuffix(name, XmlSuffix)

\* the first loop over zr.File: the shared-string table the reader works with
RECURSIVE readSharedStrings(_)
readSharedStrings(files) ==
    IF files = <<>> THEN <<>>
    ELSE IF Head(files).name = SharedStringsPath
         THEN (IF Head(files).ok
               THEN [i \in 1..Len(Head(files).body.SI) |-> Head(files).body.SI[i].T]
               ELSE <<>>)
         ELSE readSharedStrings(Tail(files))

Max(a, b) == IF a > b THEN a ELSE b

RECURSIVE readerMaxColIndex(_, _)
readerMaxColIndex(cells, m) ==
    IF cells = <<>> THEN m
    ELSE readerMaxColIndex(Tail(cells), Max(m, colRefToIndex(Head(cells).Ref)))

\* faulty variant: without the else branch an unresolved cell keeps its payload
resolveCell_keepsPayload(c, sharedStrings) ==
    IF c.Type = TypeShared
    THEN LET a == Atoi(c.Val)
         IN IF a.ok /\ a.val >= 0 /\ a.val < Len(sharedStrings)
            THEN sharedStrings[a.val + 1] ELSE c.Val
    ELSE c.Val

resolveCell(c, sharedStrings) ==
    IF c.Type = TypeShared
    THEN LET a == Atoi(c.Val)
         IN IF a.ok /\ a.val >= 0 /\ a.val < Len(sharedStrings)
            THEN sharedStrings[a.val + 1] ELSE <<>>
    ELSE c.Val

RECURSIVE placeCells(_, _, _)
placeCells(cells, rowVals, sharedStrings) ==
    IF cells = <<>> THEN rowVals
    ELSE placeCells(Tail(cells),
                    [rowVals EXCEPT ![colRefToIndex(Head(cells).Ref) + 1] =
                                        resolveCell(Head(cells), sharedStrings)],
                    sharedStrings)

\* rowVals[colIndex] = v with colIndex outside the allocated row is a run-time panic
rowPanics(cells) ==
    \E i \in 1..Len(cells) :
        \/ colRefToIndex(cells[i].Ref) < 0
        \/ colRefToIndex(cells[i].Ref) > readerMaxColIndex(cells, 0)

denseRow(cells, sharedStrings) ==
    placeCells(cells, [i \in 1..(readerMaxColIndex(cells, 0) + 1) |-> <<>>], sharedStrings)

RECURSIVE readRows(_, _)
readRows(xmlRows, sharedStrings) ==
    IF xmlRows = <<>> THEN <<>>
    ELSE (IF Len(Head(xmlRows).Cells) = 0 THEN <<>>
          ELSE <<denseRow(Head(xmlRows).Cells, sharedStrings)>>)
         \o readRows(Tail(xmlRows), sharedStrings)

sheetPanics(xmlRows) == \E i \in 1..Len(xmlRows) : rowPanics(xmlRows[i].Cells)

readSheet(f, sharedStrings) ==
    [Name |-> guessSheetName(f.name), Rows |-> readRows(f.body.Rows, sharedStrings)]

Returned(shs) == [panic |-> FALSE, err |-> FALSE, sheets |-> shs]

Failed == [panic |-> FALSE, err |-> TRUE, sheets |-> <<>>]

Panicked == [panic |-> TRUE, err |-> FALSE, sheets |-> <<>>]

\* the second loop over zr.File
RECURSIVE readWorksheets(_, _, _)
readWorksheets(files, sharedStrings, acc) ==
    IF files = <<>> THEN Returned(acc)
    ELSE IF ~isWorksheetName(Head(files).name)
         THEN readWorksheets(Tail(files), sharedStrings, acc)
         ELSE IF ~Head(files).ok THEN Failed
         ELSE IF sheetPanics(Head(files).body.Rows) THEN Panicked
         ELSE readWorksheets(Tail(files), sharedStrings,
                             Append(acc, readSheet(Head(files), sharedStrings)))

ReadExcelResult(files) == readWorksheets(files, readSharedStrings(files), <<>>)

----------------------------------------------------------------------------
(* Java package reader: ExcelReader.read *)

\* the UTF-16 code of a letter or a digit
CharCode(c) ==
    IF IsUpper(c) THEN 65 + LetterOrd(c)
    ELSE IF IsLower(c) THEN 96 + (CHOOSE i \in 1..Len(Lower) : Lower[i] = c)
    ELSE IF IsDigit(c) THEN 48 + DigitVal(c)
    ELSE 0

\* String.hashCode, kept modulo 2^22: the bits HashMap's index uses for tables of
\* up to 64 buckets (bits 0..5 of h and of h >>> 16)
RECURSIVE hashCodeLow(_, _)
hashCodeLow(str, h) ==
    IF str = <<>> THEN h
    ELSE hashCodeLow(Tail(str), (31 * h + CharCode(Head(str))) % 4194304)

RECURSIVE BitXor(_, _)
BitXor(a, b) ==
    IF a = 0 /\ b = 0 THEN 0
    ELSE ((a + b) % 2) + 2 * BitXor(a \div 2, b \div 2)

\* HashMap's table length once n keys are in: 16, doubled when n exceeds 3/4 of it
RECURSIVE tableLength(_, _)
tableLength(n, cap) == IF 4 * n > 3 * cap THEN tableLength(n, 2 * cap) ELSE cap

\* (h ^ (h >>> 16)) & (length - 1)
bucketOf(key, length) ==
    BitXor(hashCodeLow(key, 0) % length, (hashCodeLow(key, 0) \div 65536) % length)

RECURSIVE distinctKeys(_, _)
distinctKeys(entries, acc) ==
    IF entries = <<>> THEN acc
    ELSE distinctKeys(Tail(entries),
                      IF InTable(acc, Head(entries).RID) THEN acc
                      ELSE Append(acc, Head(entries).RID))

\* the keys of one bucket, in insertion order
RECURSIVE bucketKeys(_, _, _)
bucketKeys(keys, b, length) ==
    IF keys = <<>> THEN <<>>
    ELSE (IF bucketOf(Head(keys), length) = b THEN <<Head(keys)>> ELSE <<>>)
         \o bucketKeys(Tail(keys), b, length)

\* sheetRidsToNames.entrySet(): bucket after bucket
hashMapOrder(keys) ==
    LET length == tableLength(Len(keys), 16)
    IN Concat([b \in 1..length |-> bucketKeys(keys, b - 1, length)])

\* the value a key maps to: the last put wins
lastNameOf(entries, rid) ==
    entries[CHOOSE i \in 1..Len(entries) :
               /\ entries[i].RID = rid
               /\ \A j \in (i + 1)..Len(entries) : entries[j].RID # rid].Name

\* getEntryInputStream(path): the first entry of that name, or null
HasEntry(files, name) == \E i \in 1..Len(files) : files[i].name = name

EntryOf(files, name) ==
    files[CHOOSE i \in 1..Len(files) :
             /\ files[i].name = name
             /\ \A j \in 1..(i - 1) : files[j].name # name]

\* readWorkbookRels: only the targets that start with "worksheets/"
RECURSIVE worksheetRels(_)
worksheetRels(rels) ==
    IF rels = <<>> THEN <<>>
    ELSE (IF HasPrefix(Head(rels).Target, RelWorksheetDir) THEN <<Head(rels)>> ELSE <<>>)
         \o worksheetRels(Tail(rels))

HasRel(rels, rid) == \E i \in 1..Len(rels) : rels[i].Id = rid

targetOf(rels, rid) ==
    rels[CHOOSE i \in 1..Len(rels) :
            /\ rels[i].Id = rid
            /\ \A j \in (i + 1)..Len(rels) : rels[j].Id # rid].Target

\* readSheetXML: an ArrayList.set outside the row is an unchecked exception
javaReadSheet(f, sheetName, sharedStrings) ==
    [Name |-> sheetName, Rows |-> readRows(f.body.Rows, sharedStrings)]

\* the loop over sheetRidsToNames.entrySet()
RECURSIVE javaReadSheets(_, _, _, _, _, _)
javaReadSheets(files, order, entries, rels, sharedStrings, acc) ==
    IF order = <<>> THEN Returned(acc)
    ELSE LET rId      == Head(order)
             fullPath == XlDir \o targetOf(rels, rId)
             rest(a)  == javaReadSheets(files, Tail(order), entries, rels, sharedStrings, a)
         IN IF ~HasRel(rels, rId) THEN rest(acc)
            ELSE IF ~HasEntry(files, fullPath) THEN rest(acc)
            ELSE IF ~EntryOf(files, fullPath).ok THEN rest(acc)
            ELSE IF sheetPanics(EntryOf(files, fullPath).body.Rows) THEN Panicked
            ELSE rest(Append(acc, javaReadSheet(EntryOf(files, fullPath),
                                                lastNameOf(entries, rId), sharedStrings)))

PartMalformed(files, name) == HasEntry(files, name) /\ ~EntryOf(files, name).ok

PartBody(files, name, default) ==
    IF HasEntry(files, name) THEN EntryOf(files, name).body ELSE default

JavaReadResult(files) ==
    IF \/ PartMalformed(files, SharedStringsPath)
       \/ PartMalformed(files, WorkbookPath)
       \/ PartMalformed(files, WorkbookRelsPath)
    THEN Failed
    ELSE LET sst     == PartBody(files, SharedStringsPath, [SI |-> <<>>]).SI
             strings == [i \in 1..Len(sst) |-> sst[i].T]
             entries == PartBody(files, WorkbookPath, <<>>)
             rels    == worksheetRels(PartBody(files, WorkbookRelsPath, <<>>))
         IN javaReadSheets(files, hashMapOrder(distinctKeys(entries, <<>>)),
                           entries, rels, strings, <<>>)

----------------------------------------------------------------------------
(* Markdown writer: ToMarkdown *)

RECURSIVE Join(_, _)
Join(elems, sep) ==
    IF elems = <<>> THEN <<>>
    ELSE IF Len(elems) = 1 THEN Head(elems)
    ELSE Head(elems) \o sep \o Join(Tail(elems), sep)

RECURSIVE Repeat(_, _)
Repeat(s, count) == IF count <= 0 THEN <<>> ELSE s \o Repeat(s, count - 1)

\* faulty variant: the first row alone gives the column count
colCountOf_firstRow(rows) == IF rows = <<>> THEN 0 ELSE Len(Head(rows))

RECURSIVE colCountOf(_)
colCountOf(rows) == IF rows = <<>> THEN 0 ELSE Max(Len(Head(rows)), colCountOf(Tail(rows)))

\* faulty variant: the empty strings are put before the row's cells
paddedRow_padsInFront(row, colCount) ==
    IF Len(row) < colCount THEN [j \in 1..(colCount - Len(row)) |-> <<>>] \o row ELSE row

\* the row ToMarkdown leaves in sheet.Rows[i]
paddedRow(row, colCount) ==
    IF Len(row) < colCount THEN row \o [j \in 1..(colCount - Len(row)) |-> <<>>] ELSE row

paddedRows(rows) == [i \in 1..Len(rows) |-> paddedRow(rows[i], colCountOf(rows))]

\* "| " + strings.Join(row, " | ") + " |\n"
tableLine(row) == <<"|", " ">> \o Join(row, <<" ", "|", " ">>) \o <<" ", "|", "\n">>

\* "|" + strings.Repeat(" --- |", colCount) + "\n"
separatorLine(colCount) ==
    <<"|">> \o Repeat(<<" ", "-", "-", "-", " ", "|">>, colCount) \o <<"\n">>

headingLine(name) == <<"#", "#", " ">> \o name \o <<"\n", "\n">>

sheetMarkdown(sheet) ==
    IF Len(sheet.Rows) = 0 THEN <<>>
    ELSE LET rows == paddedRows(sheet.Rows)
         IN headingLine(sheet.Name)
            \o tableLine(rows[1])
            \o separatorLine(colCountOf(sheet.Rows))
            \o Concat([i \in 1..(Len(rows) - 1) |-> tableLine(rows[i + 1])])
            \o <<"\n">>

\* the string ToMarkdown returns
ToMarkdownText(shs) == Concat([i \in 1..Len(shs) |-> sheetMarkdown(shs[i])])

\* the caller's sheets after the call: rows are padded in the shared backing array
ToMarkdownSheets(shs) ==
    [i \in 1..Len(shs) |-> [Name |-> shs[i].Name, Rows |-> paddedRows(shs[i].Rows)]]

----------------------------------------------------------------------------
(* Markdown reader: ReadMarkdown and parseTable *)

\* unicode.IsSpace, over the characters texts are made of
IsSpace(c) == c \in {" ", "\t", "\n", "\r", "\f"}

RECURSIVE TrimLeft(_)
TrimLeft(s) == IF s # <<>> /\ IsSpace(Head(s)) THEN TrimLeft(Tail(s)) ELSE s

RECURSIVE TrimRight(_)
TrimRight(s) ==
    IF s # <<>> /\ IsSpace(s[Len(s)]) THEN TrimRight(SubSeq(s, 1, Len(s) - 1)) ELSE s

TrimSpace(s) == TrimRight(TrimLeft(s))

Contains(s, c) == \E i \in 1..Len(s) : s[i] = c

\* strings.Split(s, sep) for a one-character separator
RECURSIVE SplitOn(_, _, _)
SplitOn(s, sep, cur) ==
    IF s = <<>> THEN <<cur>>
    ELSE IF Head(s) = sep THEN <<cur>> \o SplitOn(Tail(s), sep, <<>>)
    ELSE SplitOn(Tail(s), sep, Append(cur, Head(s)))

Split(s, sep) == SplitOn(s, sep, <<>>)

ReplaceAll(s, old, new) == [i \in 1..Len(s) |-> IF s[i] = old THEN new ELSE s[i]]

\* separatorRe, ^[:\s-]*$
separatorReMatch(cell) == \A i \in 1..Len(cell) : cell[i] \in {":", "-"} \/ IsSpace(cell[i])

isSeparator_dashNotRequired(rawCells) ==
    \A i \in 1..Len(rawCells) : separatorReMatch(TrimSpace(rawCells[i]))

\* faulty variant: an empty cell passes for a separator segment
isSeparator_emptyCellPasses(rawCells) ==
    \A i \in 1..Len(rawCells) :
        /\ separatorReMatch(TrimSpace(rawCells[i]))
        /\ Contains(TrimSpace(rawCells[i]), "-") \/ TrimSpace(rawCells[i]) = <<>>

isSeparator(rawCells) ==
    \A i \in 1..Len(rawCells) :
        /\ separatorReMatch(TrimSpace(rawCells[i]))
        /\ Contains(TrimSpace(rawCells[i]), "-")

isTableLine(line) == HasPrefix(line, <<"|">>) /\ HasSuffix(line, <<"|">>)

\* faulty variant: long rows are not cut
normalizedRow_noTruncate(rowVals, expectedCols) ==
    IF expectedCols > 0 /\ Len(rowVals) < expectedCols
    THEN rowVals \o [j \in 1..(expectedCols - Len(rowVals)) |-> <<>>]
    ELSE rowVals

\* the row appended for a data line, normalised to the expected column count
normalizedRow(rowVals, expectedCols) ==
    IF expectedCols > 0
    THEN (IF Len(rowVals) < expectedCols
          THEN rowVals \o [j \in 1..(expectedCols - Len(rowVals)) |-> <<>>]
          ELSE IF Len(rowVals) > expectedCols THEN SubSeq(rowVals, 1, expectedCols)
          ELSE rowVals)
    ELSE rowVals

\* the loop over lines; line[1 : len(line)-1] panics when the line is "|"
RECURSIVE parseLines(_, _, _)
parseLines(lines, rows, expectedCols) ==
    IF lines = <<>> THEN [panic |-> FALSE, rows |-> rows]
    ELSE LET line == TrimSpace(Head(lines))
         IN IF line = <<>> THEN parseLines(Tail(lines), rows, expectedCols)
            ELSE IF isTableLine(line)
            THEN IF 1 > Len(line) - 1 THEN [panic |-> TRUE, rows |-> <<>>]
                 ELSE LET rawCells == Split(TrimSpace(Slice(line, 1, Len(line) - 1)), "|")
                          rowVals  == [i \in 1..Len(rawCells) |-> TrimSpace(rawCells[i])]
                          expected == IF expectedCols = 0 /\ Len(rowVals) > 0
                                      THEN Len(rowVals) ELSE expectedCols
                      IN IF isSeparator(rawCells)
                         THEN parseLines(Tail(lines), rows, expectedCols)
                         ELSE parseLines(Tail(lines),
                                         Append(rows, normalizedRow(rowVals, expected)),
                                         expected)
            ELSE IF Len(rows) > 0 THEN [panic |-> FALSE, rows |-> rows]
                 ELSE parseLines(Tail(lines), rows, expectedCols)

parseTable(mdContent) == parseLines(Split(mdContent, "\n"), <<>>, 0)

\* position of the first "\n" at or after p, Len(s)+1 when there is none
RECURSIVE lineEnd(_, _)
lineEnd(s, p) == IF p > Len(s) \/ s[p] = "\n" THEN p ELSE lineEnd(s, p + 1)

\* (?m)^## ([^\n]+)\n\n matches at position p
headingAt(s, p) ==
    /\ p = 1 \/ s[p - 1] = "\n"
    /\ p + 2 <= Len(s)
    /\ SubSeq(s, p, p + 2) = <<"#", "#", " ">>
    /\ lineEnd(s, p + 3) > p + 3
    /\ lineEnd(s, p + 3) + 1 <= Len(s)
    /\ s[lineEnd(s, p + 3) + 1] = "\n"

\* re.FindAllStringSubmatch: leftmost matches, none overlapping
RECURSIVE findHeadings(_, _)
findHeadings(s, p) ==
    IF p > Len(s) THEN <<>>
    ELSE IF headingAt(s, p)
         THEN <<[start |-> p, name |-> SubSeq(s, p + 3, lineEnd(s, p + 3) - 1),
                 end |-> lineEnd(s, p + 3) + 1]>>
              \o findHeadings(s, lineEnd(s, p + 3) + 2)
         ELSE findHeadings(s, p + 1)

\* faulty variant: every block runs to the end of the text
partAfter_toEndOfText(s, matches, i) == SubSeq(s, matches[i].end + 1, Len(s))

\* re.Split(content, -1)[i+1]: the text after match i up to the next match
partAfter(s, matches, i) ==
    SubSeq(s, matches[i].end + 1,
           IF i < Len(matches) THEN matches[i + 1].start - 1 ELSE Len(s))

DefaultSheetName == <<"S", "h", "e", "e", "t", "1">>

\* the loop over the heading matches
RECURSIVE readBlocks(_, _, _, _)
readBlocks(s, matches, i, acc) ==
    IF i > Len(matches) THEN Returned(acc)
    ELSE LET sheetName    == TrimSpace(matches[i].name)
             sheetContent == TrimSpace(partAfter(s, matches, i))
             table        == parseTable(sheetContent)
         IN IF sheetContent = <<>> THEN readBlocks(s, matches, i + 1, acc)
            ELSE IF table.panic THEN Panicked
            ELSE IF Len(table.rows) > 0
                 THEN readBlocks(s, matches, i + 1,
                          Append(acc, [Name |-> ReplaceAll(sheetName, "/", "-"),
                                       Rows |-> table.rows]))
                 ELSE readBlocks(s, matches, i + 1, acc)

\* faulty variant: without heading, the default sheet is returned even with no row
ReadMarkdownResult_emptySheetKept(content) ==
    LET matches == findHeadings(content, 1)
    IN IF Len(matches) = 0
       THEN LET table == parseTable(content)
            IN IF table.panic THEN Panicked
               ELSE Returned(<<[Name |-> DefaultSheetName, Rows |-> table.rows]>>)
       ELSE readBlocks(content, matches, 1, <<>>)

\* what ReadMarkdown returns for a file holding `content`
ReadMarkdownResult(content) ==
    LET matches == findHeadings(content, 1)
    IN IF Len(matches) = 0
       THEN LET table == parseTable(content)
            IN IF table.panic THEN Panicked
               ELSE IF Len(table.rows) > 0
                    THEN Returned(<<[Name |-> DefaultSheetName, Rows |-> table.rows]>>)
                    ELSE Returned(<<>>)
       ELSE readBlocks(content, matches, 1, <<>>)

----------------------------------------------------------------------------
(* Java Markdown reader: MarkdownReader.parseTable *)

\* SEPARATOR_ROW_PATTERN ^\|(\s*[-:]+\s*\|)+\s*$ on a trimmed line: after the first
\* "|" every "|"-ended segment is a non-empty run of "-" and ":" with white space
\* around it
javaSeparatorRow(line) ==
    /\ Len(line) >= 2 /\ isTableLine(line)
    /\ \A seg \in {Split(Slice(line, 1, Len(line) - 1), "|")[i] :
                      i \in 1..Len(Split(Slice(line, 1, Len(line) - 1), "|"))} :
          /\ TrimSpace(seg) # <<>>
          /\ \A k \in 1..Len(TrimSpace(seg)) : TrimSpace(seg)[k] \in {"-", ":"}

\* the loop over lines: every line that is no table row is passed over
RECURSIVE javaParseLines(_, _, _)
javaParseLines(lines, tableRows, expectedCols) ==
    IF lines = <<>> THEN [panic |-> FALSE, rows |-> tableRows]
    ELSE LET line == TrimSpace(Head(lines))
         IN IF line = <<>> \/ ~isTableLine(line)
            THEN javaParseLines(Tail(lines), tableRows, expectedCols)
            ELSE IF javaSeparatorRow(line)
            THEN javaParseLines(Tail(lines), tableRows, expectedCols)
            ELSE IF 1 > Len(line) - 1 THEN [panic |-> TRUE, rows |-> <<>>]
            ELSE LET rawCells == Split(TrimSpace(Slice(line, 1, Len(line) - 1)), "|")
                     rowVals  == [i \in 1..Len(rawCells) |-> TrimSpace(rawCells[i])]
                     expected == IF expectedCols = 0 THEN Len(rowVals) ELSE expectedCols
                 IN javaParseLines(Tail(lines),
                                   Append(tableRows, normalizedRow(rowVals, expected)),
                                   expected)

javaParseTable(textBlock) == javaParseLines(Split(textBlock, "\n"), <<>>, 0)

\* MarkdownReader.fromMarkdownString: always one sheet, named "Sheet1"
JavaFromMarkdownResult(markdown) ==
    IF javaParseTable(markdown).panic THEN Panicked
    ELSE Returned(<<[Name |-> DefaultSheetName, Rows |-> javaParseTable(markdown).rows]>>)

----------------------------------------------------------------------------
(* Inputs of the package runs *)

MaxSheets == 2

\* a model's size: its rows plus its cells
MaxSize == 4

\* longest single row tried
MaxWide == 6

CellValues == {<<>>, <<"a">>, <<"b">>}

SheetNames == {<<>>, <<"D">>}

RECURSIVE rowsSize(_)
rowsSize(rows) == IF rows = <<>> THEN 0 ELSE 1 + Len(Head(rows)) + rowsSize(Tail(rows))

\* the lists of rows of size at most b
RECURSIVE RowLists(_, _)
RowLists(b, V) ==
    {<<>>} \cup
    UNION {{<<r>> \o rest : r \in [1..n -> V], rest \in RowLists(b - 1 - n, V)}
           : n \in 0..(b - 1)}

\* the models of at most k sheets and size at most b
RECURSIVE ModelsOf(_, _, _, _)
ModelsOf(k, b, N, V) ==
    {<<>>} \cup
    (IF k = 0 THEN {}
     ELSE LET all == RowLists(b, V)
          IN UNION {{<<[Name |-> nm, Rows |-> rows]>> \o rest :
                        nm \in N,
                        rows \in {x \in all : rowsSize(x) = s},
                        rest \in ModelsOf(k - 1, b - s, N, V)}
                    : s \in 0..b})

WideModels ==
    {<<[Name |-> <<"D">>, Rows |-> <<r>>]>> :
        r \in UNION {[1..n -> CellValues] : n \in 0..MaxWide}}

NoFault == [kind |-> "none", part |-> <<>>]

----------------------------------------------------------------------------
(* Package round trip: write, possibly damage the file, read *)

Init ==
    /\ pc = "model" /\ src = "model"
    /\ sheets \in ModelsOf(MaxSheets, MaxSize, SheetNames, CellValues) \cup WideModels
    /\ given = sheets
    /\ pkg = <<>> /\ fault = NoFault
    /\ out = Returned(<<>>) /\ jout = Returned(<<>>)
    /\ md = <<>> /\ mdOut = Returned(<<>>)
    /\ col = 0 /\ ref = <<>> /\ idx = 0 /\ werr = FALSE
    /\ opts = NoOptions /\ disk = {} /\ calls = <<>>

\* excel.WriteExcel(path, data), called where the pipeline stands at `at`
WriteExcel(at, data) ==
    /\ pc = at
    /\ pkg' = WriteExcelArchive(data)
    /\ pc' = "written"
    /\ UNCHANGED <<src, given, sheets, fault, out, jout, md, mdOut, col, ref, idx, werr, driver>>

RemoveAt(s, i) == SubSeq(s, 1, i - 1) \o SubSeq(s, i + 1, Len(s))

\* the file ReadExcel is given need not be the file WriteExcel left: one part of
\* it may have been replaced by bytes that are not XML, or be missing
Damage ==
    /\ pc = "written" /\ fault = NoFault
    /\ \E i \in 1..Len(pkg) :
          /\ pkg[i].name = SharedStringsPath \/ isWorksheetName(pkg[i].name)
          /\ \/ /\ pkg' = [pkg EXCEPT ![i].ok = FALSE]
                /\ fault' = [kind |-> "malformed", part |-> pkg[i].name]
             \/ /\ pkg' = RemoveAt(pkg, i)
                /\ fault' = [kind |-> "missing", part |-> pkg[i].name]
    /\ UNCHANGED <<pc, src, given, sheets, out, jout, md, mdOut, col, ref, idx, werr, driver>>

\* excel.ReadExcel(path)
ReadExcel ==
    /\ pc = "written"
    /\ out' = ReadExcelResult(pkg)
    /\ pc' = "read"
    /\ UNCHANGED <<src, given, sheets, pkg, fault, jout, md, mdOut, col, ref, idx, werr, driver>>

Next == WriteExcel("model", sheets) \/ Damage \/ ReadExcel

Spec == Init /\ [][Next]_vars

----------------------------------------------------------------------------
(* Package write by each writer *)

\* new ExcelWriter(path, sheets).write()
JavaWrite ==
    /\ pc = "model"
    /\ pkg' = JavaWriteArchive(sheets)
    /\ pc' = "jwritten"
    /\ UNCHANGED <<src, given, sheets, fault, out, jout, md, mdOut, col, ref, idx, werr, driver>>

NextWriters == WriteExcel("model", sheets) \/ JavaWrite

SpecWriters == Init /\ [][NextWriters]_vars

----------------------------------------------------------------------------
(* Two package round trips: what ReadExcel returned is written and read again *)

\* the caller hands the sheets ReadExcel returned to WriteExcel
WriteBack ==
    /\ pc = "read" /\ src = "model"
    /\ ~out.panic /\ ~out.err
    /\ sheets' = out.sheets
    /\ src' = "readback"
    /\ pc' = "model"
    /\ UNCHANGED <<given, pkg, fault, out, jout, md, mdOut, col, ref, idx, werr, driver>>

NextTwice == WriteExcel("model", sheets) \/ ReadExcel \/ WriteBack

SpecTwice == Init /\ [][NextTwice]_vars

----------------------------------------------------------------------------
(* Reading packages that WriteExcel did not write *)

\* most cells of one worksheet row
MaxRowCells == 2

\* most rows of one worksheet
MaxPkgRows == 3

\* cell references: columns A and C, and a reference without a column letter
PkgRefs == {<<"A", "1">>, <<"C", "1">>, <<"1">>}

\* cell values: as indices of a one-string table "0" is valid, "1" is out of
\* range, "-1" is negative and "x" is no integer
PkgVals == {<<"0">>, <<"1">>, <<"-", "1">>, <<"x">>}

PkgCells == {[Ref |-> r, Type |-> t, Val |-> v] :
                r \in PkgRefs, t \in {TypeShared, <<>>}, v \in PkgVals}

PkgCellLists == UNION {[1..n -> PkgCells] : n \in 0..MaxRowCells}

\* a few rows to build worksheets of several rows from
PkgSampleRows ==
    { <<>>,
      <<[Ref |-> <<"A", "1">>, Type |-> <<>>, Val |-> <<"x">>]>>,
      <<[Ref |-> <<"C", "1">>, Type |-> TypeShared, Val |-> <<"0">>],
        [Ref |-> <<"A", "1">>, Type |-> TypeShared, Val |-> <<"1">>]>> }

PkgRowLists ==
    {<<cs>> : cs \in PkgCellLists}
    \cup UNION {[1..n -> PkgSampleRows] : n \in 0..MaxPkgRows}

\* the shared-strings part: absent, or holding the table <<"p">>
PkgSharedStrings == {<<>>, <<sharedStringsPart(<<<<"p">>>>)>>}

xmlRowsOf(cellLists) == [i \in 1..Len(cellLists) |-> [R |-> i, Cells |-> cellLists[i]]]

Packages ==
    {sst \o <<[name |-> WorksheetPath(1), ok |-> TRUE, body |-> [Rows |-> xmlRowsOf(rs)]]>> :
        sst \in PkgSharedStrings, rs \in PkgRowLists}

InitPkg ==
    /\ pc = "written" /\ src = "pkg"
    /\ pkg \in Packages
    /\ sheets = <<>> /\ given = <<>> /\ fault = NoFault
    /\ out = Returned(<<>>) /\ jout = Returned(<<>>)
    /\ md = <<>> /\ mdOut = Returned(<<>>)
    /\ col = 0 /\ ref = <<>> /\ idx = 0 /\ werr = FALSE
    /\ opts = NoOptions /\ disk = {} /\ calls = <<>>

NextPkg == ReadExcel

SpecPkg == InitPkg /\ [][NextPkg]_vars

----------------------------------------------------------------------------
(* Package write with a failing I/O operation *)

\* the I/O operations of one WriteExcel call, in the order the code performs them:
\* os.Create, then zw.Create and the write of the bytes for every part, then the
\* deferred zw.Close and zipFile.Close
RECURSIVE partOps(_)
partOps(parts) ==
    IF parts = <<>> THEN <<>>
    ELSE <<[kind |-> "zwCreate", part |-> Head(parts).name],
           [kind |-> "write", part |-> Head(parts).name]>> \o partOps(Tail(parts))

ioOps(shs) ==
    <<[kind |-> "osCreate", part |-> <<>>]>>
    \o partOps(WriteExcelArchive(shs))
    \o <<[kind |-> "zwClose", part |-> <<>>], [kind |-> "fileClose", part |-> <<>>]>>

IOFaultKinds == {"osCreate", "zwCreate", "write", "zwClose", "fileClose"}

\* the parts whose bytes go through writeXML (enc.Encode); the others through f.Write
isEncodedPart(name) ==
    name = SharedStringsPath \/ name = WorkbookPath \/ isWorksheetName(name)

\* the errors WriteExcel can return when operation k of ops fails.  os.Create and
\* zw.Create are checked.  The result of f.Write is dropped and the archive's
\* buffered writer keeps the failure, so the next zw.Create returns it; for the
\* last part there is no next zw.Create and only enc.Encode can see the failure,
\* which depends on how much the compressor had buffered.  The deferred Close calls
\* drop their errors.
writeErrorsWhenFailing(ops, k) ==
    IF ops[k].kind \in {"osCreate", "zwCreate"} THEN {TRUE}
    ELSE IF ops[k].kind = "write"
         THEN (IF \E j \in (k + 1)..Len(ops) : ops[j].kind = "zwCreate" THEN {TRUE}
               ELSE IF isEncodedPart(ops[k].part) THEN {TRUE, FALSE}
               ELSE {FALSE})
    ELSE {FALSE}

\* excel.WriteExcel(path, data) with one I/O operation failing
WriteExcelFailing ==
    /\ pc = "model"
    /\ \E k \in 1..Len(ioOps(sheets)) :
          /\ fault' = ioOps(sheets)[k]
          /\ werr' \in writeErrorsWhenFailing(ioOps(sheets), k)
          /\ pkg' = <<>>
    /\ pc' = "returned"
    /\ UNCHANGED <<src, given, sheets, out, jout, md, mdOut, col, ref, idx, driver>>

\* excel.WriteExcel(path, data) with no failure: it returns nil
WriteExcelDone ==
    /\ pc = "model"
    /\ pkg' = WriteExcelArchive(sheets)
    /\ werr' = FALSE
    /\ pc' = "returned"
    /\ UNCHANGED <<src, given, sheets, fault, out, jout, md, mdOut, col, ref, idx, driver>>

NextWrite == WriteExcelFailing \/ WriteExcelDone

SpecWrite == Init /\ [][NextWrite]_vars

----------------------------------------------------------------------------
(* Column codec runs: a column index is encoded into a reference, then decoded *)

MaxCol == 1000

InitCodec ==
    /\ pc = "col" /\ src = "col"
    /\ col \in 0..MaxCol /\ ref = <<>> /\ idx = 0 /\ werr = FALSE
    /\ opts = NoOptions /\ disk = {} /\ calls = <<>>
    /\ sheets = <<>> /\ given = <<>>
    /\ pkg = <<>> /\ fault = NoFault
    /\ out = Returned(<<>>) /\ jout = Returned(<<>>)
    /\ md = <<>> /\ mdOut = Returned(<<>>)

\* the writer's cellRef := fmt.Sprintf("%s%d", toColName(cIdx), rowNum), for row 1
EncodeCol ==
    /\ pc = "col"
    /\ ref' = cellRef(col, 1)
    /\ pc' = "ref"
    /\ UNCHANGED <<src, given, sheets, pkg, fault, out, jout, md, mdOut, col, idx, werr, driver>>

\* the reader's colIndex := colRefToIndex(c.Ref)
DecodeRef ==
    /\ pc = "ref"
    /\ idx' = colRefToIndex(ref)
    /\ pc' = "idx"
    /\ UNCHANGED <<src, given, sheets, pkg, fault, out, jout, md, mdOut, col, ref, werr, driver>>

NextCodec == EncodeCol \/ DecodeRef

SpecCodec == InitCodec /\ [][NextCodec]_vars

----------------------------------------------------------------------------
(* Markdown runs: sheets -> Markdown -> sheets, and text -> sheets -> package *)

MaxMdSheets == 2

\* a model's size: its rows plus its cells
MaxMdSize == 4

\* lines of a text handed to ReadMarkdown
MaxLines == 4

MdCells == {<<>>, <<"a">>, <<"-">>, <<"x", "|", "y">>}

MdNames == {<<"S">>, <<"a", "/", "b">>}

\* one-cell sheets whose name or cell is empty, has white space around it or holds
\* a line break
MdOddModels ==
    {<<[Name |-> nm, Rows |-> << <<c>> >>]>> :
        nm \in {<<>>, <<"S">>, <<" ", "S">>, <<"S", "\n", "T">>},
        c \in {<<"a">>, <<" ", "a">>, <<"a", " ">>, <<"a", "\n", "b">>}}

MdLines ==
    { <<"#", "#", " ", "S">>,
      <<>>,
      <<"|", " ", "a", " ", "|", " ", "b", " ", "|">>,
      <<"|", " ", "-", "-", "-", " ", "|", " ", "-", "-", "-", " ", "|">>,
      <<"|", " ", "b", " ", "|">>,
      <<"|">>,
      <<"x">> }

\* the texts of at most n lines, each line ended by a newline
RECURSIVE TextsOf(_)
TextsOf(n) ==
    IF n = 0 THEN {<<>>}
    ELSE {<<>>} \cup {l \o <<"\n">> \o rest : l \in MdLines, rest \in TextsOf(n - 1)}

\* longest row of the two-row sheets
MaxRagged == 3

\* one sheet of two rows of any two lengths, cells empty or not
RaggedModels ==
    {<<[Name |-> <<"S">>, Rows |-> <<r1, r2>>]>> :
        r1, r2 \in UNION {[1..n -> {<<>>, <<"a">>}] : n \in 0..MaxRagged}}

InitMd ==
    /\ \/ /\ src = "model" /\ pc = "model"
          /\ sheets \in ModelsOf(MaxMdSheets, MaxMdSize, MdNames, MdCells)
                          \cup MdOddModels \cup RaggedModels
          /\ given = sheets /\ md = <<>>
       \/ /\ src = "text" /\ pc = "text"
          /\ md \in TextsOf(MaxLines) /\ sheets = <<>> /\ given = <<>>
    /\ pkg = <<>> /\ fault = NoFault
    /\ out = Returned(<<>>) /\ jout = Returned(<<>>)
    /\ mdOut = Returned(<<>>)
    /\ col = 0 /\ ref = <<>> /\ idx = 0 /\ werr = FALSE
    /\ opts = NoOptions /\ disk = {} /\ calls = <<>>

\* markdown.ToMarkdown(sheets); the text is then the content of the .md file
ToMarkdown ==
    /\ pc = "model"
    /\ md' = ToMarkdownText(sheets)
    /\ sheets' = ToMarkdownSheets(sheets)
    /\ pc' = "text"
    /\ UNCHANGED <<src, given, pkg, fault, out, jout, mdOut, col, ref, idx, werr, driver>>

\* markdown.ReadMarkdown(path) on a readable file
ReadMarkdown ==
    /\ pc = "text"
    /\ mdOut' = ReadMarkdownResult(md)
    /\ pc' = "parsed"
    /\ UNCHANGED <<src, given, sheets, pkg, fault, out, jout, md, col, ref, idx, werr, driver>>

\* Run, md2excel: WriteExcel is called once ReadMarkdown has returned without error
ReadMarkdownReturned == ~mdOut.panic /\ ~mdOut.err

NextMd ==
    \/ ToMarkdown
    \/ ReadMarkdown
    \/ (ReadMarkdownReturned /\ WriteExcel("parsed", mdOut.sheets))
    \/ ReadExcel

SpecMd == InitMd /\ [][NextMd]_vars

----------------------------------------------------------------------------
(* Markdown written twice from the same sheets *)

\* markdown.ToMarkdown(sheets) called again by the holder of the same sheets
ToMarkdownAgain ==
    /\ pc = "text" /\ src = "model"
    /\ md' = ToMarkdownText(sheets)
    /\ sheets' = ToMarkdownSheets(sheets)
    /\ pc' = "text2"
    /\ UNCHANGED <<src, given, pkg, fault, out, jout, mdOut, col, ref, idx, werr, driver>>

NextFrame == ToMarkdown \/ ToMarkdownAgain

SpecFrame == InitMd /\ [][NextFrame]_vars

----------------------------------------------------------------------------
(* Markdown texts read by both Markdown readers *)

\* lines of a text
MaxTextLines == 4

\* the lines texts are made of: a heading with the empty line after it (its name
\* has a "/" and a trailing blank), a heading with no empty line after it, an empty
\* line, a row of two cells, a separator row, a row of a dash cell and an empty
\* cell, a row of one empty cell, a row of one colon, and a line that is no table row
TextLines ==
    { <<"#", "#", " ", "a", "/", "b", " ", "\n">>,
      <<"#", "#", " ", "T">>,
      <<>>,
      <<"|", " ", "a", " ", "|", " ", "b", " ", "|">>,
      <<"|", " ", ":", "-", ":", " ", "|", " ", "-", " ", "|">>,
      <<"|", " ", "-", " ", "|", " ", " ", "|">>,
      <<"|", " ", " ", "|">>,
      <<"|", " ", ":", " ", "|">>,
      <<"x">> }

\* the texts of at most n of these lines, each ended by a newline
RECURSIVE TextsFrom(_, _)
TextsFrom(L, n) ==
    IF n = 0 THEN {<<>>}
    ELSE {<<>>} \cup {l \o <<"\n">> \o rest : l \in L, rest \in TextsFrom(L, n - 1)}

InitText ==
    /\ src = "text" /\ pc = "text"
    /\ md \in TextsFrom(TextLines, MaxTextLines)
    /\ sheets = <<>> /\ given = <<>>
    /\ pkg = <<>> /\ fault = NoFault
    /\ out = Returned(<<>>) /\ jout = Returned(<<>>)
    /\ mdOut = Returned(<<>>)
    /\ col = 0 /\ ref = <<>> /\ idx = 0 /\ werr = FALSE
    /\ opts = NoOptions /\ disk = {} /\ calls = <<>>

\* new MarkdownReader().fromMarkdownString(markdown)
JavaFromMarkdownString ==
    /\ pc = "text"
    /\ jout' = JavaFromMarkdownResult(md)
    /\ pc' = "jparsed"
    /\ UNCHANGED <<src, given, sheets, pkg, fault, out, md, mdOut, col, ref, idx, werr, driver>>

NextText == ReadMarkdown \/ JavaFromMarkdownString

SpecText == InitText /\ [][NextText]_vars

----------------------------------------------------------------------------
(* Sheet order runs: many sheets through each writer and reader *)

MaxOrderSheets == 9

\* sheet k holds the single cell "k" and is named "N<k>" or "M<k>"
OrderSheets(k) ==
    {[Name |-> nm \o Itoa(k), Rows |-> << <<Itoa(k)>> >>] : nm \in {<<"N">>, <<"M">>}}

RECURSIVE OrderModelsOf(_)
OrderModelsOf(n) ==
    IF n = 0 THEN {<<>>}
    ELSE {Append(m, sh) : m \in OrderModelsOf(n - 1), sh \in OrderSheets(n)}

InitOrder ==
    /\ pc = "model" /\ src = "model"
    /\ sheets \in UNION {OrderModelsOf(n) : n \in 0..MaxOrderSheets}
    /\ given = sheets
    /\ pkg = <<>> /\ fault = NoFault
    /\ out = Returned(<<>>) /\ jout = Returned(<<>>)
    /\ md = <<>> /\ mdOut = Returned(<<>>)
    /\ col = 0 /\ ref = <<>> /\ idx = 0 /\ werr = FALSE
    /\ opts = NoOptions /\ disk = {} /\ calls = <<>>

\* new ExcelReader(path).read()
JavaRead ==
    /\ pc = "written"
    /\ jout' = JavaReadResult(pkg)
    /\ pc' = "jread"
    /\ UNCHANGED <<src, given, sheets, pkg, fault, out, md, mdOut, col, ref, idx, werr, driver>>

NextOrder ==
    \/ WriteExcel("model", sheets)
    \/ ReadExcel
    \/ JavaRead
    \/ ToMarkdown
    \/ ReadMarkdown

SpecOrder == InitOrder /\ [][NextOrder]_vars

----------------------------------------------------------------------------
(* The driver: ParseFlags and Run *)

ExcelExt == <<".", "x", "l", "s", "x">>

MdExt == <<".", "m", "d">>

\* filepath.Ext(path): from the last "." of the last element of path, or empty
RECURSIVE ExtFrom(_, _)
ExtFrom(path, i) ==
    IF i < 1 \/ path[i] = "/" THEN <<>>
    ELSE IF path[i] = "." THEN SubSeq(path, i, Len(path))
    ELSE ExtFrom(path, i - 1)

Ext(path) == ExtFrom(path, Len(path))

XlsxFile == <<"a", ".", "x", "l", "s", "x">>

MdFile == <<"b", ".", "m", "d">>

\* the values of -i and -o: not given, a package, a Markdown file, a file of
\* another kind, and a file without extension in a directory named like a
\* Markdown file
FileNames == {<<>>, XlsxFile, MdFile, <<"c", ".", "t", "x", "t">>, <<"d", ".", "m", "d", "/", "e">>}

\* the direction the switch of ParseFlags picks, "" where it ends the process
directionOf(inExt, outExt) ==
    IF inExt = ExcelExt /\ outExt = MdExt THEN "excel2md"
    ELSE IF inExt = MdExt /\ outExt = ExcelExt THEN "md2excel"
    ELSE ""

RunModel == <<[Name |-> <<"S">>, Rows |-> << <<<<"a">>>>, <<<<>>, <<"b">>>> >>]>>

\* the .xlsx file of the run: a package WriteExcel wrote, one whose worksheet is
\* not XML, and one with a cell reference without a column letter
RunPackages ==
    { WriteExcelArchive(RunModel),
      <<[name |-> WorksheetPath(1), ok |-> FALSE, body |-> [Rows |-> <<>>]]>>,
      <<[name |-> WorksheetPath(1), ok |-> TRUE,
         body |-> [Rows |-> xmlRowsOf(<< <<[Ref |-> <<"1">>, Type |-> <<>>,
                                            Val |-> <<"x">>]>> >>)]]>> }

\* the .md file of the run: a text ToMarkdown wrote, a text without a table and a
\* line that is a single "|"
RunTexts ==
    { ToMarkdownText(RunModel),
      <<"x">>,
      <<"|">> }

InitRun ==
    /\ pc = "start" /\ src = "args"
    /\ disk \in SUBSET {XlsxFile, MdFile}
    /\ pkg \in (IF XlsxFile \in disk THEN RunPackages ELSE {<<>>})
    /\ md \in (IF MdFile \in disk THEN RunTexts ELSE {<<>>})
    /\ opts = NoOptions /\ calls = <<>>
    /\ sheets = <<>> /\ given = <<>> /\ fault = NoFault
    /\ out = Returned(<<>>) /\ jout = Returned(<<>>) /\ mdOut = Returned(<<>>)
    /\ col = 0 /\ ref = <<>> /\ idx = 0 /\ werr = FALSE

\* ParseFlags(): os.Exit(1) when -i or -o is missing, log.Fatalf when the two
\* extensions are no valid combination, the Options otherwise
ParseFlags ==
    /\ pc = "start"
    /\ \E i, o \in FileNames :
          IF i = <<>> \/ o = <<>>
          THEN /\ opts' = [opts EXCEPT !.InputFile = i, !.OutputFile = o]
               /\ pc' = "exit1"
          ELSE /\ opts' = [InputFile |-> i, OutputFile |-> o,
                           Direction |-> directionOf(Ext(i), Ext(o))]
               /\ pc' = IF directionOf(Ext(i), Ext(o)) = "" THEN "exit1" ELSE "run"
    /\ UNCHANGED <<src, given, sheets, pkg, fault, out, jout, md, mdOut, col, ref, idx, werr,
                   disk, calls>>

\* faulty variant: Run goes on with the data whatever the reader returned
afterReader_ignoresError(res) == IF res.panic THEN "crash" ELSE "data"

\* where Run stands once a reader has returned res: the run-time panic ends the
\* process, log.Fatalf ends it with status 1, otherwise Run holds the data
afterReader(res) ==
    IF res.panic THEN "crash" ELSE IF res.err THEN "exit1" ELSE "data"

\* Run, case "excel2md": data, err := excel.ReadExcel(opts.InputFile)
RunReadExcel ==
    /\ pc = "run" /\ opts.Direction = "excel2md"
    /\ out' = IF opts.InputFile \in disk THEN ReadExcelResult(pkg) ELSE Failed
    /\ sheets' = out'.sheets
    /\ pc' = afterReader(out')
    /\ calls' = Append(calls, "ReadExcel")
    /\ UNCHANGED <<src, given, pkg, fault, jout, md, mdOut, col, ref, idx, werr, opts, disk>>

\* Run, case "excel2md": md := markdown.ToMarkdown(data) and
\* os.WriteFile(opts.OutputFile, md).  WriteFile fails before it has opened the
\* file, or after it has created or truncated it
RunWriteMarkdown ==
    /\ pc = "data" /\ opts.Direction = "excel2md"
    /\ sheets' = ToMarkdownSheets(sheets)
    /\ \/ /\ md' = ToMarkdownText(sheets)
          /\ disk' = disk \cup {opts.OutputFile}
          /\ fault' = fault
          /\ pc' = "exit0"
       \/ /\ fault' = [kind |-> "osOpen", part |-> <<>>]
          /\ UNCHANGED <<md, disk>>
          /\ pc' = "exit1"
       \/ /\ fault' = [kind |-> "write", part |-> <<>>]
          /\ md' = <<>>
          /\ disk' = disk \cup {opts.OutputFile}
          /\ pc' = "exit1"
    /\ calls' = Append(calls, "WriteFile")
    /\ UNCHANGED <<src, given, pkg, out, jout, mdOut, col, ref, idx, werr, opts>>

\* Run, case "md2excel": data, err := markdown.ReadMarkdown(opts.InputFile)
RunReadMarkdown ==
    /\ pc = "run" /\ opts.Direction = "md2excel"
    /\ mdOut' = IF opts.InputFile \in disk THEN ReadMarkdownResult(md) ELSE Failed
    /\ sheets' = mdOut'.sheets
    /\ pc' = afterReader(mdOut')
    /\ calls' = Append(calls, "ReadMarkdown")
    /\ UNCHANGED <<src, given, pkg, fault, out, jout, md, col, ref, idx, werr, opts, disk>>

\* Run, case "md2excel": excel.WriteExcel(opts.OutputFile, data), with no I/O
\* failure or with one; a failed os.Create leaves the file as it was
RunWriteExcel ==
    /\ pc = "data" /\ opts.Direction = "md2excel"
    /\ \/ /\ pkg' = WriteExcelArchive(sheets)
          /\ disk' = disk \cup {opts.OutputFile}
          /\ fault' = fault
          /\ werr' = FALSE
       \/ \E k \in 1..Len(ioOps(sheets)) :
             /\ fault' = ioOps(sheets)[k]
             /\ werr' \in writeErrorsWhenFailing(ioOps(sheets), k)
             /\ IF ioOps(sheets)[k].kind = "osCreate"
                THEN UNCHANGED <<pkg, disk>>
                ELSE pkg' = <<>> /\ disk' = disk \cup {opts.OutputFile}
    /\ pc' = IF werr' THEN "exit1" ELSE "exit0"
    /\ calls' = Append(calls, "WriteExcel")
    /\ UNCHANGED <<src, given, sheets, out, jout, md, mdOut, col, ref, idx, opts>>

NextRun ==
    \/ ParseFlags
    \/ RunReadExcel
    \/ RunWriteMarkdown
    \/ RunReadMarkdown
    \/ RunWriteExcel

SpecRun == InitRun /\ [][NextRun]_vars

----------------------------------------------------------------------------
(* Properties of the package round trip *)

\* the read of the very file WriteExcel wrote, for a model given by the caller
CleanRoundTrip == pc = "read" /\ src = "model" /\ fault = NoFault

NonEmptyCols(row) == {c \in 1..Len(row) : row[c] # <<>>}

SetMax(S) == CHOOSE m \in S : \A k \in S : k <= m

\* C1: after WriteExcel and ReadExcel, every non-empty cell value of the model is
\* found in the same sheet at the same row index and the same column index.
C1_CellsKeepRowAndColumn ==
    CleanRoundTrip =>
        /\ ~out.err /\ ~out.panic
        /\ Len(out.sheets) = Len(given)
        /\ \A i \in 1..Len(given) :
             \A r \in 1..Len(given[i].Rows) :
               \A c \in NonEmptyCols(given[i].Rows[r]) :
                  /\ r <= Len(out.sheets[i].Rows)
                  /\ c <= Len(out.sheets[i].Rows[r])
                  /\ out.sheets[i].Rows[r][c] = given[i].Rows[r][c]

\* the name the round trip is expected to return for the sheet at position i
ExpectedSheetName(i) ==
    IF given[i].Name = <<>> THEN <<"S","h","e","e","t">> \o Itoa(i) ELSE given[i].Name

\* C2: after WriteExcel and ReadExcel the sheets carry, position by position, the
\* names given to the writer, an empty name coming back as "Sheet<i+1>".
C2_SheetNamesComeBack ==
    CleanRoundTrip =>
        /\ ~out.err /\ ~out.panic
        /\ Len(out.sheets) = Len(given)
        /\ \A i \in 1..Len(given) : out.sheets[i].Name = ExpectedSheetName(i)

\* the dense row expected for a row whose non-empty columns are S
DenseOf(row) ==
    [c \in 1..SetMax(NonEmptyCols(row)) |->
        IF c \in NonEmptyCols(row) THEN row[c] ELSE <<>>]

HasValue(row) == NonEmptyCols(row) # {}

RECURSIVE DenseRowsOf(_)
DenseRowsOf(rows) ==
    IF rows = <<>> THEN <<>>
    ELSE (IF HasValue(Head(rows)) THEN <<DenseOf(Head(rows))>> ELSE <<>>)
         \o DenseRowsOf(Tail(rows))

\* C6: every row with a non-empty set S of valued columns is read back as a dense
\* row of length max(S)+1, holding the original value at the indices of S and the
\* empty string at the others; the rows read are these rows, in order.
C6_SparseWriteDenseRead ==
    CleanRoundTrip =>
        /\ ~out.err /\ ~out.panic
        /\ Len(out.sheets) = Len(given)
        /\ \A i \in 1..Len(given) : out.sheets[i].Rows = DenseRowsOf(given[i].Rows)

\* a row with exactly the columns 0 and 5 valued came back with length 6
C6_Witness ==
    /\ CleanRoundTrip
    /\ Len(given) = 1 /\ Len(given[1].Rows) = 1
    /\ NonEmptyCols(given[1].Rows[1]) = {1, 6}
    /\ Len(out.sheets[1].Rows[1]) = 6
    /\ \A c \in 2..5 : out.sheets[1].Rows[1][c] = <<>>

\* what ReadExcel returns for the file as WriteExcel left it
UndamagedRead == ReadExcelResult(WriteExcelArchive(given)).sheets

WorksheetFault == fault.kind \in {"malformed", "missing"} /\ isWorksheetName(fault.part)

RECURSIVE Without(_, _)
Without(shs, name) ==
    IF shs = <<>> THEN <<>>
    ELSE (IF Head(shs).Name = name THEN <<>> ELSE <<Head(shs)>>) \o Without(Tail(shs), name)

\* C9: with one worksheet part missing or malformed the read succeeds and returns
\* every other worksheet, only the sheet of that part being absent.
C9_WorksheetFailureIsolated ==
    (pc = "read" /\ src = "model" /\ WorksheetFault) =>
        /\ ~out.err /\ ~out.panic
        /\ out.sheets = Without(UndamagedRead, guessSheetName(fault.part))

\* C10: with a shared-strings part that is not well-formed XML the read ends in an
\* error and returns no sheets.
C10_MalformedSharedStringsFatal ==
    (pc = "read" /\ fault = [kind |-> "malformed", part |-> SharedStringsPath]) =>
        /\ out.err
        /\ out.sheets = <<>>

----------------------------------------------------------------------------
(* Properties of the Markdown runs *)

PadRowsTo(rows, n) == [i \in 1..Len(rows) |-> paddedRow(rows[i], n)]

SameWhenPadded(rowsA, rowsB) ==
    LET n == Max(colCountOf(rowsA), colCountOf(rowsB))
    IN PadRowsTo(rowsA, n) = PadRowsTo(rowsB, n)

PlainName(nm) ==
    /\ nm # <<>> /\ TrimSpace(nm) = nm
    /\ ~Contains(nm, "/") /\ ~Contains(nm, "\n")

\* a cell string a table line carries unchanged
PlainCell(c) == TrimSpace(c) = c /\ ~Contains(c, "|") /\ ~Contains(c, "\n")

\* a cell made of dashes, colons and white space only, with a dash
DashCell(c) ==
    /\ Contains(c, "-")
    /\ \A k \in 1..Len(c) : c[k] \in {":", "-"} \/ IsSpace(c[k])

PlainSheet(sh) ==
    /\ Len(sh.Rows) >= 1 /\ colCountOf(sh.Rows) >= 1
    /\ PlainName(sh.Name)
    /\ \A r \in 1..Len(sh.Rows) :
          /\ \A c \in 1..Len(sh.Rows[r]) : PlainCell(sh.Rows[r][c])
          /\ \E c \in 1..colCountOf(sh.Rows) :
                ~DashCell(paddedRow(sh.Rows[r], colCountOf(sh.Rows))[c])

PlainModel(shs) == \A i \in 1..Len(shs) : PlainSheet(shs[i])

C7_MarkdownToPackageFidelity ==
    (pc = "read" /\ src \in {"model", "text"} /\ md # <<>>) =>
        /\ ~out.err /\ ~out.panic
        /\ Len(out.sheets) = Len(mdOut.sheets)
        /\ \A i \in 1..Len(mdOut.sheets) :
              /\ out.sheets[i].Name = mdOut.sheets[i].Name
              /\ out.sheets[i].Rows = mdOut.sheets[i].Rows

\* C8: for every text ReadMarkdown completes: it neither aborts nor returns an error.
C8_MarkdownReaderNeverFails ==
    pc = "parsed" => (~mdOut.panic /\ ~mdOut.err)

----------------------------------------------------------------------------
(* Properties of the column codec *)

\* C4: for every column index i in 0..1000, decoding the reference built from
\* toColName(i) and the row number 1 gives i back; 0, 25 and 26 are "A", "Z", "AA".
C4_ColumnCodecBijection ==
    /\ pc = "idx" => idx = col
    /\ pc \in {"ref", "idx"} =>
          /\ col = 0 => ref = <<"A", "1">>
          /\ col = 25 => ref = <<"Z", "1">>
          /\ col = 26 => ref = <<"A", "A", "1">>
          /\ col = 701 => ref = <<"Z", "Z", "1">>

\* a three-letter column was encoded and decoded
C4_Witness == pc = "idx" /\ col = 1000 /\ ref = <<"A", "L", "M", "1">> /\ idx = 1000

----------------------------------------------------------------------------
(* Properties of the sheet order *)

\* position, in the sequence given to the writer, of the sheet a returned sheet
\* holds the rows of (in these runs sheet k holds the cell "k")
OriginOf(sh) == Atoi(sh.Rows[1][1]).val

InGivenOrder(shs) ==
    \A i \in 1..Len(shs) : \A j \in (i + 1)..Len(shs) : OriginOf(shs[i]) < OriginOf(shs[j])

\* C5: the sheets a reader returns after a writer are in the order they were given
\* to the writer: ReadExcel after WriteExcel, the Java ExcelReader.read on the same
\* package, and ReadMarkdown after ToMarkdown.
C5_SheetOrderPreserved ==
    /\ pc = "read" => InGivenOrder(out.sheets)
    /\ pc = "jread" => InGivenOrder(jout.sheets)
    /\ pc = "parsed" => InGivenOrder(mdOut.sheets)

----------------------------------------------------------------------------
(* Properties of the package write *)

\* C11: when an I/O operation of WriteExcel fails (creating the file, creating a
\* part, writing a part's bytes, closing the archive or the file), WriteExcel
\* returns an error.
C11_WriteFailureReported ==
    (pc = "returned" /\ fault.kind \in IOFaultKinds) => werr

----------------------------------------------------------------------------
(* Properties of reading arbitrary packages *)

PkgRead == pc = "read" /\ src = "pkg"

\* the worksheet rows of the package read, those without cells left out
CellRowsRead ==
    SelectSeq(EntryOf(pkg, WorksheetPath(1)).body.Rows, LAMBDA r : Len(r.Cells) > 0)

\* a shared-string cell whose payload is no index of the table
InvalidSharedRef(c, table) ==
    /\ c.Type = TypeShared
    /\ \/ ~Atoi(c.Val).ok
       \/ Atoi(c.Val).val < 0
       \/ Atoi(c.Val).val >= Len(table)

\* the package with every such cell replaced by a literal cell of empty value
WithEmptyLiterals(files) ==
    [i \in 1..Len(files) |->
        IF ~isWorksheetName(files[i].name) THEN files[i]
        ELSE [files[i] EXCEPT !.body.Rows =
                [r \in 1..Len(@) |->
                    [@[r] EXCEPT !.Cells =
                        [k \in 1..Len(@) |->
                            IF InvalidSharedRef(@[k], readSharedStrings(files))
                            THEN [Ref |-> @[k].Ref, Type |-> <<>>, Val |-> <<>>]
                            ELSE @[k]]]]]]

\* every cell reference of the package starts with a column letter
AllRefsHaveColumn ==
    \A r \in 1..Len(CellRowsRead) : \A k \in 1..Len(CellRowsRead[r].Cells) :
        colRefToIndex(CellRowsRead[r].Cells[k].Ref) >= 0

\* cell k is the last cell of its row for its column
LastForColumn(cells, k) ==
    \A j \in (k + 1)..Len(cells) : colRefToIndex(cells[j].Ref) # colRefToIndex(cells[k].Ref)

\* C12: a cell of type "s" whose value is no integer, is negative or is not below
\* the size of the shared-string table (empty when the package has no shared-strings
\* part) is read as the empty string: the read returns no error, it returns what it
\* returns for the package with that cell replaced by an empty literal cell, and
\* the row read holds the empty string at the cell's column.
C12_InvalidSharedRefReadsEmpty ==
    PkgRead =>
        /\ ~out.err
        /\ out = ReadExcelResult(WithEmptyLiterals(pkg))
        /\ AllRefsHaveColumn =>
              /\ ~out.panic
              /\ Len(out.sheets) = 1
              /\ Len(out.sheets[1].Rows) = Len(CellRowsRead)
              /\ \A r \in 1..Len(CellRowsRead) :
                   \A k \in 1..Len(CellRowsRead[r].Cells) :
                      (/\ InvalidSharedRef(CellRowsRead[r].Cells[k], readSharedStrings(pkg))
                       /\ LastForColumn(CellRowsRead[r].Cells, k))
                      => out.sheets[1].Rows[r][colRefToIndex(CellRowsRead[r].Cells[k].Ref) + 1]
                            = <<>>

\* a package without shared-strings part: the cell C1 of type "s" and value "0"
\* is read as the empty string next to the literal "x" of A1
C12_Witness ==
    /\ PkgRead /\ ~HasEntry(pkg, SharedStringsPath)
    /\ Len(CellRowsRead) = 1
    /\ CellRowsRead[1].Cells =
          <<[Ref |-> <<"A", "1">>, Type |-> <<>>, Val |-> <<"x">>],
            [Ref |-> <<"C", "1">>, Type |-> TypeShared, Val |-> <<"0">>]>>
    /\ out = Returned(<<[Name |-> <<"S", "h", "e", "e", "t", "1">>,
                         Rows |-> << <<<<"x">>, <<>>, <<>>>> >>]>>)

\* the largest column index decoded from the references of the cells
MaxDecoded(cells) ==
    SetMax({colRefToIndex(cells[k].Ref) : k \in 1..Len(cells)})

\* the dense row the cells stand for: the resolved value of the (last) cell of each
\* column, the empty string where the row has no cell
DenseRowOfCells(cells, table) ==
    [c \in 1..(MaxDecoded(cells) + 1) |->
        IF \E k \in 1..Len(cells) : colRefToIndex(cells[k].Ref) = c - 1
        THEN resolveCell(cells[CHOOSE k \in 1..Len(cells) :
                                  /\ colRefToIndex(cells[k].Ref) = c - 1
                                  /\ LastForColumn(cells, k)], table)
        ELSE <<>>]

\* C13: for every worksheet row with at least one cell ReadExcel returns a row of
\* length (largest decoded column index) + 1 holding each cell's resolved value at
\* its decoded column index and the empty string elsewhere; rows without cells
\* give no row.
C13_DenseRowReconstruction ==
    PkgRead =>
        /\ ~out.err /\ ~out.panic
        /\ Len(out.sheets) = 1
        /\ Len(out.sheets[1].Rows) = Len(CellRowsRead)
        /\ \A r \in 1..Len(CellRowsRead) :
              out.sheets[1].Rows[r] =
                 DenseRowOfCells(CellRowsRead[r].Cells, readSharedStrings(pkg))

----------------------------------------------------------------------------
(* Properties of the Markdown reader, stated on the lines of the text *)

TextParsed == pc = "parsed" /\ src = "text"

\* the lines of a text, white space around each removed
TrimmedLines(text) == [i \in 1..Len(Split(text, "\n")) |-> TrimSpace(Split(text, "\n")[i])]

\* a pipe-bounded line with something between its bounds
PipeBounded(line) == Len(line) >= 2 /\ Head(line) = "|" /\ line[Len(line)] = "|"

\* the raw cells of a pipe-bounded line, each trimmed
CellsOfLine(line) ==
    LET inner == TrimSpace(SubSeq(line, 2, Len(line) - 1))
    IN [i \in 1..Len(Split(inner, "|")) |-> TrimSpace(Split(inner, "|")[i])]

\* every cell is made of dashes, colons and white space and holds a dash
AllDashCells(line) == \A i \in 1..Len(CellsOfLine(line)) : DashCell(CellsOfLine(line)[i])

DataLine(line) == PipeBounded(line) /\ ~AllDashCells(line)

\* cells cut or filled with empty strings to n cells
Fit(cells, n) == [i \in 1..n |-> IF i <= Len(cells) THEN cells[i] ELSE <<>>]

\* index of the first data line, 0 when there is none
FirstDataLine(lines) ==
    IF \E i \in 1..Len(lines) : DataLine(lines[i])
    THEN CHOOSE i \in 1..Len(lines) :
            DataLine(lines[i]) /\ \A j \in 1..(i - 1) : ~DataLine(lines[j])
    ELSE 0

\* index of the first line after the first data line that is neither empty nor
\* pipe-bounded, Len(lines) + 1 when there is none
Interruption(lines) ==
    LET S == {i \in (FirstDataLine(lines) + 1)..Len(lines) :
                 lines[i] # <<>> /\ ~PipeBounded(lines[i])}
    IN IF S = {} THEN Len(lines) + 1 ELSE CHOOSE i \in S : \A j \in S : i <= j

\* the table of a block: its data lines from the first one up to the interruption,
\* each fitted to the cell count of the first
TableOfLines(lines) ==
    IF FirstDataLine(lines) = 0 THEN <<>>
    ELSE LET dl == SelectSeq([i \in 1..(Interruption(lines) - 1) |-> lines[i]], DataLine)
         IN [k \in 1..Len(dl) |-> Fit(CellsOfLine(dl[k]), Len(CellsOfLine(dl[1])))]

\* indices of the lines "## name" that an empty line follows
HeadingLines(lines) ==
    {i \in 1..(Len(lines) - 2) :
        /\ Len(lines[i]) > 3 /\ SubSeq(lines[i], 1, 3) = <<"#", "#", " ">>
        /\ lines[i + 1] = <<>>}

\* C14: the first table row of a block that is no separator fixes the column count
\* n; every row returned for the block has n cells, a shorter row being filled with
\* empty strings on the right and a longer one cut to its first n cells.
C14_RaggedRowsNormalized ==
    TextParsed =>
        /\ \A i \in 1..Len(mdOut.sheets) : \A r \in 1..Len(mdOut.sheets[i].Rows) :
              Len(mdOut.sheets[i].Rows[r]) = Len(mdOut.sheets[i].Rows[1])
        /\ HeadingLines(Split(md, "\n")) = {} =>
              \/ mdOut.sheets = <<>> /\ TableOfLines(TrimmedLines(md)) = <<>>
              \/ /\ Len(mdOut.sheets) = 1
                 /\ mdOut.sheets[1].Rows = TableOfLines(TrimmedLines(md))

\* a first row of one cell, then a row of two cells cut to one and an empty row
C14_Witness ==
    /\ TextParsed
    /\ md = <<"|", " ", ":", " ", "|", "\n">>
            \o <<"|", " ", "a", " ", "|", " ", "b", " ", "|", "\n">>
            \o <<"|", " ", " ", "|", "\n">>
    /\ mdOut.sheets[1].Rows = << <<<<":">>>>, <<<<"a">>>>, <<<<>>>> >>

\* only dash, colon and white space
SeparatorChars(cell) == \A i \in 1..Len(cell) : cell[i] \in {"-", ":"} \/ IsSpace(cell[i])

\* every raw cell is made of dash, colon and white space, and some cell holds a dash
SeparatorAsStated(line) ==
    /\ \A i \in 1..Len(CellsOfLine(line)) : SeparatorChars(CellsOfLine(line)[i])
    /\ \E i \in 1..Len(CellsOfLine(line)) : Contains(CellsOfLine(line)[i], "-")

\* a text of pipe-bounded and empty lines only
OnlyTableLines(text) ==
    \A i \in 1..Len(TrimmedLines(text)) :
        TrimmedLines(text)[i] = <<>> \/ PipeBounded(TrimmedLines(text)[i])

RowsReturned(result) == IF result.sheets = <<>> THEN <<>> ELSE result.sheets[1].Rows

\* C15: parseTable discards a pipe-bounded row as a separator if and only if every
\* raw cell of it is made of dash, colon and white space and at least one cell holds
\* a dash; every other pipe-bounded row is returned as a data row.
C15_SeparatorRule ==
    (pc \in {"parsed", "jparsed"} /\ src = "text" /\ OnlyTableLines(md)) =>
        LET kept == SelectSeq(TrimmedLines(md),
                        LAMBDA l : PipeBounded(l) /\ ~SeparatorAsStated(l))
            got  == IF pc = "parsed" THEN RowsReturned(mdOut) ELSE RowsReturned(jout)
        IN Len(got) = Len(kept)

\* a pipe-bounded line whose cells are all empty once trimmed
BlankRow(line) ==
    PipeBounded(line) /\ \A i \in 1..Len(CellsOfLine(line)) : CellsOfLine(line)[i] = <<>>

\* a pipe-bounded line whose cells all hold a dash among dashes, colons and white space
DashedRow(line) == PipeBounded(line) /\ AllDashCells(line)

AllEmpty(row) == \A i \in 1..Len(row) : row[i] = <<>>

\* the lines put together again, each ended by a newline
RECURSIVE TextOfLines(_)
TextOfLines(lines) ==
    IF lines = <<>> THEN <<>> ELSE Head(lines) \o <<"\n">> \o TextOfLines(Tail(lines))

\* the text without its dashed rows
WithoutDashedRows(text) ==
    TextOfLines(SelectSeq(Split(text, "\n"), LAMBDA l : ~DashedRow(TrimSpace(l))))

\* C16: a pipe-bounded row whose cells are all white space is kept as a data row of
\* empty strings and counts toward the table (the first such row fixes the column
\* count), and a row whose cells are all of the ":-:" style, each holding a dash, is
\* dropped wherever it stands in the block.
C16_BlankRowsKeptDashedRowsDropped ==
    (TextParsed /\ HeadingLines(Split(md, "\n")) = {}) =>
        LET lines == TrimmedLines(md)
            got   == RowsReturned(mdOut)
            f     == FirstDataLine(lines)
            blank == SelectSeq([i \in 1..(Interruption(lines) - 1) |-> lines[i]], BlankRow)
        IN /\ got = parseTable(WithoutDashedRows(md)).rows
           /\ Len(SelectSeq(got, AllEmpty)) >= Len(blank)
           /\ (f # 0 /\ BlankRow(lines[f])) =>
                 /\ got # <<>>
                 /\ AllEmpty(got[1])
                 /\ \A r \in 1..Len(got) : Len(got[r]) = Len(CellsOfLine(lines[f]))

\* a blank row first, fixing one column, a dashed row after the data rows began
C16_Witness ==
    /\ TextParsed
    /\ md = <<"|", " ", " ", "|", "\n">>
            \o <<"|", " ", "a", " ", "|", " ", "b", " ", "|", "\n">>
            \o <<"|", " ", ":", "-", ":", " ", "|", " ", "-", " ", "|", "\n">>
            \o <<"|", " ", ":", " ", "|", "\n">>
    /\ RowsReturned(mdOut) = << <<<<>>>>, <<<<"a">>>>, <<<<":">>>> >>

\* index of the first line, after the first pipe-bounded line, that is neither empty
\* nor pipe-bounded; Len(lines) + 1 when there is none
EndOfTable(lines) ==
    LET S == {i \in 1..Len(lines) :
                 /\ lines[i] # <<>> /\ ~PipeBounded(lines[i])
                 /\ \E j \in 1..(i - 1) : PipeBounded(lines[j])}
    IN IF S = {} THEN Len(lines) + 1 ELSE CHOOSE i \in S : \A j \in S : i <= j

\* C17: within one block, once a pipe-bounded line has been taken, the first later
\* line that is neither blank nor pipe-bounded ends the parsing of the block: no line
\* after it contributes a row to the result.
C17_NoTableResumption ==
    (pc \in {"parsed", "jparsed"} /\ src = "text" /\ HeadingLines(Split(md, "\n")) = {}) =>
        LET lines  == TrimmedLines(md)
            got    == IF pc = "parsed" THEN RowsReturned(mdOut) ELSE RowsReturned(jout)
            before == SelectSeq([i \in 1..(EndOfTable(lines) - 1) |-> lines[i]], PipeBounded)
        IN /\ Len(got) <= Len(before)
           /\ \A r \in 1..Len(got) : \E k \in 1..Len(before) :
                 got[r] = Fit(CellsOfLine(before[k]), Len(got[1]))

\* the sheets for the heading lines hs (indices into lines, ascending): for each
\* heading whose block, the lines from `skip` lines after it up to the next heading,
\* has a table, a sheet named nameOf(heading text) holding that table
SheetsOfHeadings(lines, hs, skip, nameOf(_)) ==
    LET blockOf(k) ==
            [i \in 1..((IF k < Len(hs) THEN hs[k + 1] - 1 ELSE Len(lines)) - (hs[k] + skip - 1))
                |-> TrimSpace(lines[hs[k] + skip - 1 + i])]
        all == [k \in 1..Len(hs) |->
                   [Name |-> nameOf(SubSeq(lines[hs[k]], 4, Len(lines[hs[k]]))),
                    Rows |-> TableOfLines(blockOf(k))]]
    IN SelectSeq(all, LAMBDA sh : sh.Rows # <<>>)

\* the lines of the form "## name"
HeadingsAsStated(lines) ==
    SelectSeq([i \in 1..Len(lines) |-> i],
              LAMBDA i : Len(lines[i]) > 3 /\ SubSeq(lines[i], 1, 3) = <<"#", "#", " ">>)

SanitizedName(name) ==
    [i \in 1..Len(TrimSpace(name)) |->
        IF TrimSpace(name)[i] = "/" THEN "-" ELSE TrimSpace(name)[i]]

----------------------------------------------------------------------------
(* Properties of the shared-string table *)

\* the places <<sheet, row, column>> of the non-empty values of a model
ValuePlaces(shs) ==
    {<<s, r, c>> \in (1..Len(shs)) \X (1..(MaxWide + MaxSize)) \X (1..(MaxWide + MaxSize)) :
        /\ r <= Len(shs[s].Rows)
        /\ c <= Len(shs[s].Rows[r])
        /\ shs[s].Rows[r][c] # <<>>}

ValueAt(shs, p) == shs[p[1]].Rows[p[2]][p[3]]

\* p comes before q in a scan by sheet, then row, then column
ScannedBefore(p, q) ==
    \/ p[1] < q[1]
    \/ p[1] = q[1] /\ p[2] < q[2]
    \/ p[1] = q[1] /\ p[2] = q[2] /\ p[3] < q[3]

FirstPlaceOf(shs, v) ==
    CHOOSE p \in ValuePlaces(shs) :
        /\ ValueAt(shs, p) = v
        /\ \A q \in ValuePlaces(shs) : ValueAt(shs, q) = v => (q = p \/ ScannedBefore(p, q))

PartNamed(archive, name) == CHOOSE i \in 1..Len(archive) : archive[i].name = name

\* the cell written for place p holds, as its value, the number n
CellHoldsIndex(archive, p, n) ==
    LET ws == archive[PartNamed(archive, WorksheetPath(p[1]))].body
    IN \E k \in 1..Len(ws.Rows) :
          /\ ws.Rows[k].R = p[2]
          /\ \E m \in 1..Len(ws.Rows[k].Cells) :
                /\ ws.Rows[k].Cells[m].Ref = cellRef(p[3] - 1, p[2])
                /\ ws.Rows[k].Cells[m].Type = TypeShared
                /\ ws.Rows[k].Cells[m].Val = Itoa(n)

\* C20: the table WriteExcel builds holds exactly the distinct non-empty cell values
\* of all sheets, each once, in the order of their first occurrence in a scan by
\* sheet, then row, then column; each value is given its position in that list as
\* its index; and the shared-strings part declares count and uniqueCount equal to
\* the size of the table.
C20_SharedStringTable ==
    (pc = "written" /\ fault = NoFault) =>
        LET sst == pkg[PartNamed(pkg, SharedStringsPath)].body
            T   == [i \in 1..Len(sst.SI) |-> sst.SI[i].T]
        IN /\ {T[i] : i \in 1..Len(T)} = {ValueAt(sheets, p) : p \in ValuePlaces(sheets)}
           /\ \A i, j \in 1..Len(T) : T[i] = T[j] => i = j
           /\ \A i, j \in 1..Len(T) :
                 i < j => ScannedBefore(FirstPlaceOf(sheets, T[i]), FirstPlaceOf(sheets, T[j]))
           /\ \A p \in ValuePlaces(sheets) : \A i \in 1..Len(T) :
                 T[i] = ValueAt(sheets, p) =>
                    /\ stringIndexMap(T, T[i]) = i - 1
                    /\ CellHoldsIndex(pkg, p, i - 1)
           /\ sst.Count = Len(T)
           /\ sst.UniqueCount = Len(T)

\* a row with a repeated value and an empty cell: "b" gets index 0, "a" index 1
C20_Witness ==
    /\ pc = "written" /\ fault = NoFault
    /\ sheets = <<[Name |-> <<"D">>, Rows |-> << <<<<"b">>, <<>>, <<"a">>, <<"b">>>> >>]>>
    /\ pkg[PartNamed(pkg, SharedStringsPath)].body.SI = <<[T |-> <<"b">>], [T |-> <<"a">>]>>

----------------------------------------------------------------------------
(* Properties of the written worksheets *)

PackageWritten == pc \in {"written", "jwritten"} /\ fault = NoFault

\* the body of the worksheet part written for sheet s (counted from 1)
WorksheetOf(archive, s) == archive[PartNamed(archive, WorksheetPath(s))].body

\* the strings of the shared-strings part
StringsOf(archive) ==
    [i \in 1..Len(archive[PartNamed(archive, SharedStringsPath)].body.SI) |->
        archive[PartNamed(archive, SharedStringsPath)].body.SI[i].T]

\* the cell stands at row r, column c (counted from 1) of the model's sheet s
CellIsAt(cell, s, r, c) ==
    /\ r <= Len(sheets[s].Rows)
    /\ c <= Len(sheets[s].Rows[r])
    /\ cell.Ref = toColName(c - 1) \o Itoa(r)

\* C21: every cell element written in a worksheet has type "s" and, as its value, a
\* decimal index i with 0 <= i < size of the table such that table[i] is the model's
\* value at the cell's row and column; no inline or numeric literal cell is written.
C21_CellsGoThroughTable ==
    PackageWritten =>
        \A s \in 1..Len(sheets) :
            \A k \in 1..Len(WorksheetOf(pkg, s).Rows) :
                \A m \in 1..Len(WorksheetOf(pkg, s).Rows[k].Cells) :
                    LET row  == WorksheetOf(pkg, s).Rows[k]
                        cell == row.Cells[m]
                    IN /\ cell.Type = <<"s">>
                       /\ \E i \in 0..(Len(StringsOf(pkg)) - 1) :
                             /\ cell.Val = Itoa(i)
                             /\ \E c \in 1..(MaxWide + MaxSize) :
                                   /\ CellIsAt(cell, s, row.R, c)
                                   /\ StringsOf(pkg)[i + 1] = sheets[s].Rows[row.R][c]

\* two sheets written by WriteExcel, the second repeating a value of the first
C21_Witness ==
    /\ pc = "written"
    /\ sheets = <<[Name |-> <<>>, Rows |-> << <<<<"a">>>> >>],
                  [Name |-> <<>>, Rows |-> << <<<<"a">>>> >>]>>
    /\ WorksheetOf(pkg, 2).Rows =
          <<[R |-> 1, Cells |-> <<[Ref |-> <<"A", "1">>, Type |-> <<"s">>, Val |-> <<"0">>]>>]>>

\* the worksheet of sheet s has a row element numbered r
HasRowElement(archive, s, r) ==
    \E k \in 1..Len(WorksheetOf(archive, s).Rows) : WorksheetOf(archive, s).Rows[k].R = r

\* the worksheet of sheet s has, in a row element numbered r, a cell for column c
HasCellElement(archive, s, r, c) ==
    \E k \in 1..Len(WorksheetOf(archive, s).Rows) :
        /\ WorksheetOf(archive, s).Rows[k].R = r
        /\ \E m \in 1..Len(WorksheetOf(archive, s).Rows[k].Cells) :
              WorksheetOf(archive, s).Rows[k].Cells[m].Ref = toColName(c - 1) \o Itoa(r)

\* C22: a written worksheet part has a cell element for a position if and only if the
\* model's value there is not empty, and a row element for a model row if and only
\* if that row has a non-empty cell (a row of empty cells only gives no row element).
C22_SparseEncoding ==
    PackageWritten =>
        \A s \in 1..Len(sheets) : \A r \in 1..Len(sheets[s].Rows) :
            /\ \A c \in 1..Len(sheets[s].Rows[r]) :
                  HasCellElement(pkg, s, r, c) <=> sheets[s].Rows[r][c] # <<>>
            /\ HasRowElement(pkg, s, r) <=>
                  \E c \in 1..Len(sheets[s].Rows[r]) : sheets[s].Rows[r][c] # <<>>

\* the column (counted from 0) a written reference names in row number n
ColumnOfRef(cellref, n) ==
    CHOOSE c \in 0..(MaxWide + MaxSize) : cellref = toColName(c) \o Itoa(n)

\* the non-empty values of a model row, in column order
NonEmptyValues(row) == SelectSeq(row, LAMBDA v : v # <<>>)

\* C23: every row element WriteExcel writes carries the row's index in the sheet plus
\* one, every cell reference in it is toColName(column index) followed by that same
\* row number, row numbers in a worksheet are strictly increasing, and cell columns
\* in a row are strictly increasing.
C23_RowAndCellAddressing ==
    (pc = "written" /\ fault = NoFault) =>
        \A s \in 1..Len(sheets) :
            LET xml == WorksheetOf(pkg, s).Rows
            IN /\ \A k \in 1..Len(xml) :
                     /\ xml[k].R \in 1..Len(sheets[s].Rows)
                     /\ \A m \in 1..Len(xml[k].Cells) :
                           \E c \in 0..(Len(sheets[s].Rows[xml[k].R]) - 1) :
                              /\ xml[k].Cells[m].Ref = toColName(c) \o Itoa(xml[k].R)
                              /\ StringsOf(pkg)[Atoi(xml[k].Cells[m].Val).val + 1]
                                    = sheets[s].Rows[xml[k].R][c + 1]
                     /\ [m \in 1..Len(xml[k].Cells) |->
                            StringsOf(pkg)[Atoi(xml[k].Cells[m].Val).val + 1]]
                           = NonEmptyValues(sheets[s].Rows[xml[k].R])
                     /\ \A m, n \in 1..Len(xml[k].Cells) :
                           m < n => ColumnOfRef(xml[k].Cells[m].Ref, xml[k].R)
                                       < ColumnOfRef(xml[k].Cells[n].Ref, xml[k].R)
               /\ \A k, j \in 1..Len(xml) : k < j => xml[k].R < xml[j].R

\* an empty first row and a second row whose first cell is empty: the one row
\* element is numbered 2 and its one cell is B2
C23_Witness ==
    /\ pc = "written" /\ fault = NoFault
    /\ sheets = <<[Name |-> <<"D">>, Rows |-> << <<>>, <<<<>>, <<"a">>>> >>]>>
    /\ WorksheetOf(pkg, 1).Rows =
          <<[R |-> 2, Cells |-> <<[Ref |-> <<"B", "2">>, Type |-> <<"s">>, Val |-> <<"0">>]>>]>>

----------------------------------------------------------------------------
(* Properties of the workbook and its relationships *)

BodyOf(archive, name) == archive[PartNamed(archive, name)].body

\* exactly one part of the archive has the name
PartPresent(archive, name) ==
    Cardinality({i \in 1..Len(archive) : archive[i].name = name}) = 1

\* "rId<n>"
RelId(n) == <<"r", "I", "d">> \o Itoa(n)

\* "worksheets/sheet<n>.xml", the target, and "xl/" before it, the part
SheetTarget(n) ==
    <<"w","o","r","k","s","h","e","e","t","s","/","s","h","e","e","t">> \o Itoa(n)
        \o <<".","x","m","l">>

PartOfTarget(target) == <<"x", "l", "/">> \o target

\* the worksheet part named `name` holds the rows of the model's sheet s: a cell for
\* every non-empty value, pointing to that value, and no other cell
HoldsRowsOf(archive, name, s) ==
    LET xml == BodyOf(archive, name).Rows
    IN /\ \A k \in 1..Len(xml) :
             /\ xml[k].R \in 1..Len(sheets[s].Rows)
             /\ [m \in 1..Len(xml[k].Cells) |->
                    StringsOf(archive)[Atoi(xml[k].Cells[m].Val).val + 1]]
                   = NonEmptyValues(sheets[s].Rows[xml[k].R])
       /\ \A r \in 1..Len(sheets[s].Rows) :
             NonEmptyValues(sheets[s].Rows[r]) # <<>> =>
                Cardinality({k \in 1..Len(xml) : xml[k].R = r}) = 1

\* C24: for n sheets the workbook part lists sheet i, in the order given, with sheet
\* ID i+1 and relationship ID "rId<i+1>"; the workbook relationships map "rId<i+1>"
\* to worksheets/sheet<i+1>.xml, and that part holds the rows of sheet i; the content
\* types have one override per worksheet part; styles and shared strings have
\* "rId<n+1>" and "rId<n+2>"; all relationship IDs differ and each resolves to a part
\* that is in the archive.
C24_WorkbookRelationships ==
    (pc = "written" /\ fault = NoFault) =>
        LET n    == Len(sheets)
            wb   == BodyOf(pkg, WorkbookPath)
            rels == BodyOf(pkg, WorkbookRelsPath)
            ct   == BodyOf(pkg, ContentTypesPath)
        IN /\ Len(wb) = n
           /\ Len(rels) = n + 2
           /\ \A i \in 1..n :
                 /\ wb[i].SheetID = i
                 /\ wb[i].RID = RelId(i)
                 /\ sheets[i].Name # <<>> => wb[i].Name = sheets[i].Name
                 /\ wb[i].Name # <<>>
                 /\ \E j \in 1..Len(rels) :
                       rels[j].Id = RelId(i) /\ rels[j].Target = SheetTarget(i)
                 /\ HoldsRowsOf(pkg, PartOfTarget(SheetTarget(i)), i)
                 /\ Cardinality({j \in 1..Len(ct) : ct[j] = PartOfTarget(SheetTarget(i))}) = 1
           /\ Cardinality({j \in 1..Len(ct) : isWorksheetName(ct[j])}) = n
           /\ \E j \in 1..Len(rels) :
                 rels[j].Id = RelId(n + 1) /\ rels[j].Target = <<"s","t","y","l","e","s",".","x","m","l">>
           /\ \E j \in 1..Len(rels) :
                 /\ rels[j].Id = RelId(n + 2)
                 /\ PartOfTarget(rels[j].Target) = SharedStringsPath
           /\ \A j, k \in 1..Len(rels) : rels[j].Id = rels[k].Id => j = k
           /\ \A j \in 1..Len(rels) : PartPresent(pkg, PartOfTarget(rels[j].Target))

\* two sheets, the first without a name: four relationship IDs, rId1 to rId4
C24_Witness ==
    /\ pc = "written" /\ fault = NoFault
    /\ Len(sheets) = 2 /\ sheets[1].Name = <<>> /\ sheets[2].Name = <<"D">>
    /\ sheets[2].Rows # <<>>
    /\ [j \in 1..4 |-> BodyOf(pkg, WorkbookRelsPath)[j].Id]
          = << <<"r","I","d","1">>, <<"r","I","d","2">>, <<"r","I","d","3">>, <<"r","I","d","4">> >>
    /\ BodyOf(pkg, WorkbookPath)[1].Name = <<"S","h","e","e","t","1">>

----------------------------------------------------------------------------
(* Properties of the Markdown writer, stated on the lines of its text *)

\* the state after ToMarkdown: `given` holds the sheets as they were passed
MarkdownWritten == pc = "text" /\ src = "model"

\* "| c1 | c2 | ... |", and "|  |" for no cell
RowText(cells) ==
    IF cells = <<>> THEN <<"|", " ", " ", "|">>
    ELSE <<"|">> \o Concat([i \in 1..Len(cells) |-> <<" ">> \o cells[i] \o <<" ", "|">>])

\* "| --- | --- | ... |" with n segments
SeparatorText(n) == <<"|">> \o Concat([i \in 1..n |-> <<" ", "-", "-", "-", " ", "|">>])

\* the longest row's length
WidthOf(rows) ==
    CHOOSE n \in 0..(MaxMdSize + 2) :
        /\ \A r \in 1..Len(rows) : Len(rows[r]) <= n
        /\ n = 0 \/ \E r \in 1..Len(rows) : Len(rows[r]) = n

\* the lines of one sheet: heading, empty line, header, separator, body, empty line
SheetLines(sheet) ==
    IF sheet.Rows = <<>> THEN <<>>
    ELSE <<<<"#", "#", " ">> \o sheet.Name, <<>>,
           RowText(Fit(sheet.Rows[1], WidthOf(sheet.Rows))),
           SeparatorText(WidthOf(sheet.Rows))>>
         \o [i \in 1..(Len(sheet.Rows) - 1) |->
                RowText(Fit(sheet.Rows[i + 1], WidthOf(sheet.Rows)))]
         \o << <<>> >>

\* C25: ToMarkdown emits, in the order given, one "## <name>" heading per sheet with
\* at least one row and none for a sheet without rows; under a heading come the
\* first row as the header line, one separator line, and each further row as one
\* line in order, so a sheet with k >= 1 rows gives k+1 table lines.
C25_MarkdownSheetStructure ==
    MarkdownWritten =>
        Split(md, "\n") =
            Concat([i \in 1..Len(given) |-> SheetLines(given[i])]) \o << <<>> >>

\* the text of one sheet: heading, header, separator of n segments, body, each row
\* cut or filled to n cells, and the empty line that ends it
SheetTextOfWidth(sheet, n) ==
    <<"#", "#", " ">> \o sheet.Name \o <<"\n", "\n">>
    \o RowText(Fit(sheet.Rows[1], n)) \o <<"\n">>
    \o SeparatorText(n) \o <<"\n">>
    \o Concat([i \in 1..(Len(sheet.Rows) - 1) |-> RowText(Fit(sheet.Rows[i + 1], n)) \o <<"\n">>])
    \o <<"\n">>

\* names and cells that the table syntax carries as they are
PlainValues(shs) ==
    \A i \in 1..Len(shs) :
        /\ ~Contains(shs[i].Name, "\n")
        /\ \A r \in 1..Len(shs[i].Rows) : \A c \in 1..Len(shs[i].Rows[r]) :
              ~Contains(shs[i].Rows[r][c], "\n") /\ ~Contains(shs[i].Rows[r][c], "|")

Pipes(line) == Len(SelectSeq(line, LAMBDA ch : ch = "|"))

\* C26: for each sheet written, the column count is the greatest row length of the
\* sheet; the header line and every body line hold exactly that many cells (a
\* shorter row is completed with empty cells at its end, no cell is dropped) and the
\* separator line holds exactly that many " --- " segments.
C26_MarkdownColumnWidth ==
    MarkdownWritten =>
        LET written == SelectSeq(given, LAMBDA sh : sh.Rows # <<>>)
        IN /\ md = Concat([i \in 1..Len(written) |->
                       SheetTextOfWidth(written[i], WidthOf(written[i].Rows))])
           /\ \A i \in 1..Len(written) : \A r \in 1..Len(written[i].Rows) :
                 Len(written[i].Rows[r]) <= WidthOf(written[i].Rows)
           /\ (PlainValues(given) /\ \A i \in 1..Len(written) : WidthOf(written[i].Rows) > 0) =>
                 LET lines  == Split(md, "\n")
                     tables == SelectSeq(lines, LAMBDA l : l # <<>> /\ Head(l) = "|")
                     widths == Concat([i \in 1..Len(written) |->
                                   [k \in 1..(Len(written[i].Rows) + 1) |->
                                       WidthOf(written[i].Rows)]])
                 IN /\ Len(tables) = Len(widths)
                    /\ \A k \in 1..Len(tables) : Pipes(tables[k]) = widths[k] + 1

\* a sheet whose first row is shorter than its second: the header is completed to
\* two cells and the separator has two segments
C26_Witness ==
    /\ MarkdownWritten
    /\ given = <<[Name |-> <<"S">>, Rows |-> << <<>>, <<<<"a">>, <<"a">>>> >>]>>
    /\ md = <<"#", "#", " ", "S", "\n", "\n">>
            \o <<"|", " ", " ", "|", " ", " ", "|", "\n">>
            \o <<"|", " ", "-", "-", "-", " ", "|", " ", "-", "-", "-", " ", "|", "\n">>
            \o <<"|", " ", "a", " ", "|", " ", "a", " ", "|", "\n", "\n">>

----------------------------------------------------------------------------
(* Properties of repeated package round trips *)

\* C27: with M1 = ReadExcel(WriteExcel(M)), a second round trip changes nothing:
\* ReadExcel(WriteExcel(M1)) = M1, sheet count, names, row counts, row lengths and
\* cell values, also when M has rows without any non-empty cell, which the writer
\* leaves out.
C27_RoundTripStable ==
    (pc = "read" /\ src = "readback") =>
        /\ ~out.panic /\ ~out.err
        /\ Len(out.sheets) = Len(sheets)
        /\ \A i \in 1..Len(sheets) :
              /\ out.sheets[i].Name = sheets[i].Name
              /\ Len(out.sheets[i].Rows) = Len(sheets[i].Rows)
              /\ \A r \in 1..Len(sheets[i].Rows) : out.sheets[i].Rows[r] = sheets[i].Rows[r]

\* M has an empty row before a row whose first cell is empty; M1 has the one row
\* ["", "a"], and so has the result of the second round trip
C27_Witness ==
    /\ pc = "read" /\ src = "readback"
    /\ given = <<[Name |-> <<"D">>, Rows |-> << <<>>, <<<<>>, <<"a">>>> >>]>>
    /\ Len(sheets) = 1 /\ sheets[1].Rows = << <<<<>>, <<"a">>>> >>
    /\ out.sheets[1].Rows = << <<<<>>, <<"a">>>> >>

----------------------------------------------------------------------------
(* Properties of the reader's row allocation *)

\* C28: in ReadExcel, for every worksheet row with at least one cell and every cell
\* reference a package can carry, also one without a leading upper-case letter, the
\* decoded column index lies in 0..len(row)-1, so that placing a value never indexes
\* outside the row that was allocated.
C28_ReaderIndexInBounds ==
    PkgRead =>
        /\ ~out.panic
        /\ \A r \in 1..Len(CellRowsRead) : \A k \in 1..Len(CellRowsRead[r].Cells) :
              LET allocated == Max(0, MaxDecoded(CellRowsRead[r].Cells)) + 1
              IN colRefToIndex(CellRowsRead[r].Cells[k].Ref) \in 0..(allocated - 1)

----------------------------------------------------------------------------
(* Properties of the Markdown writer's effect on its argument *)

\* `after` is `before` with some empty strings put at its end
CompletedRow(before, after) ==
    /\ Len(after) >= Len(before)
    /\ \A c \in 1..Len(before) : after[c] = before[c]
    /\ \A c \in (Len(before) + 1)..Len(after) : after[c] = <<>>

\* what one call of ToMarkdown may do to the sheets it is given
OnlyShortRowsCompleted(before, after) ==
    /\ Len(after) = Len(before)
    /\ \A i \in 1..Len(before) :
          /\ after[i].Name = before[i].Name
          /\ Len(after[i].Rows) = Len(before[i].Rows)
          /\ \A r \in 1..Len(before[i].Rows) :
                /\ CompletedRow(before[i].Rows[r], after[i].Rows[r])
                /\ Len(after[i].Rows[r]) = WidthOf(before[i].Rows)

\* C29: the only change ToMarkdown makes to the caller's sheets is that a row shorter
\* than the longest row of its sheet becomes the same row followed by empty strings;
\* the number and order of sheets, the names, the row counts and every cell at its
\* index stay, sheets without rows are untouched, and a second call on the same
\* sheets returns the same text.
C29_MarkdownWriterFrame ==
    [][ /\ (pc = "model" /\ pc' = "text") \/ (pc = "text" /\ pc' = "text2") =>
              OnlyShortRowsCompleted(sheets, sheets')
        /\ (pc = "text" /\ pc' = "text2") => (md' = md /\ sheets' = sheets) ]_vars

\* a sheet whose one-cell row is shorter than its two-cell row, written twice
C29_Witness ==
    /\ pc = "text2"
    /\ given = <<[Name |-> <<"S">>, Rows |-> << <<<<"a">>>>, <<<<>>, <<"a">>>> >>]>>
    /\ sheets = <<[Name |-> <<"S">>, Rows |-> << <<<<"a">>, <<>>>>, <<<<>>, <<"a">>>> >>]>>
    /\ md = ToMarkdownText(given)

----------------------------------------------------------------------------
(* Properties of the driver *)

\* the process has ended: with status 0, with status 1, or by a run-time panic
Ended == pc \in {"exit0", "exit1", "crash"}

ReaderOf(direction) == IF direction = "excel2md" THEN "ReadExcel" ELSE "ReadMarkdown"

WriterOf(direction) == IF direction = "excel2md" THEN "WriteFile" ELSE "WriteExcel"

\* what the reader of the direction returned
ReaderResult == IF opts.Direction = "excel2md" THEN out ELSE mdOut

\* the calls made so far are the reader of the chosen direction, then its writer,
\* and the writer only when the reader has returned without error; a reader that
\* returned an error has ended the process with status 1
RunOrdering ==
    /\ Len(calls) <= 2
    /\ Len(calls) >= 1 =>
          opts.Direction \in {"excel2md", "md2excel"} /\ calls[1] = ReaderOf(opts.Direction)
    /\ Len(calls) = 2 =>
          /\ calls[2] = WriterOf(opts.Direction)
          /\ ~ReaderResult.err /\ ~ReaderResult.panic
    /\ Len(calls) >= 1 /\ ReaderResult.err => pc = "exit1" /\ Len(calls) = 1

\* a step that creates or modifies a file is the writer step of the chosen
\* direction, taken when its reader has returned without error, and the file is
\* the output file; an ended process takes no step
RunFrame ==
    /\ ~Ended
    /\ disk' # disk \/ pkg' # pkg \/ md' # md =>
          /\ Len(calls) = 1 /\ Len(calls') = 2
          /\ ~ReaderResult.err /\ ~ReaderResult.panic
          /\ disk' \subseteq disk \cup {opts.OutputFile}
          /\ opts.Direction = "excel2md" => pkg' = pkg
          /\ opts.Direction = "md2excel" => md' = md
    /\ disk \subseteq disk'

\* C30: in Run the writer step starts only after the matching reader has returned
\* without error; when the reader returns an error the conversion ends in failure
\* and the output file is neither created nor modified; and every invocation runs
\* exactly one of the two reader/writer pairs.
C30_PipelineOrdering ==
    [][ /\ RunOrdering'
        /\ RunFrame
        /\ Ended' => Len(calls') >= 1 ]_vars

\* C30 for the invocations ParseFlags lets through: as above, with one of the two
\* pairs run exactly when ParseFlags has returned a direction, and neither of them
\* when ParseFlags has ended the process.
C30_PipelineOrderingOfParsedRuns ==
    [][ /\ RunOrdering'
        /\ RunFrame
        /\ Ended' => (Len(calls') >= 1 <=> opts'.Direction # "") ]_vars

\* a Markdown file was read without error and its sheets written to the package
C30_Witness ==
    /\ pc = "exit0"
    /\ opts.Direction = "md2excel"
    /\ calls = <<"ReadMarkdown", "WriteExcel">>
    /\ mdOut = Returned(sheets) /\ sheets # <<>>
    /\ opts.OutputFile \in disk
    /\ pkg = WriteExcelArchive(sheets)

====
